---- MODULE Spec2Model ----
(***************************************************************************)
(* Model of forkestra's Session Manager (managers/session_manager.rs) and  *)
(* of the line-based ACP connection of one adapter (providers/kimi.rs,     *)
(* providers/acp_helper.rs).                                               *)
(*                                                                         *)
(*   Spec      the session table, its asynchronous operations and the      *)
(*             agent processes they spawn                                  *)
(*   SpecConn  one protocol connection: pending-request table, stdin       *)
(*             writer, stdout/stderr readers, the agent at the other end   *)
(***************************************************************************)
EXTENDS Integers, Sequences, FiniteSets, TLC

\* ---- bounds of the model -------------------------------------------------
MaxSessions == 1       \* session ids that create_session can generate
MaxOps == 3            \* commands issued to the Session Manager in one run

SessionIds == 1 .. MaxSessions
\* A process is named by the number of the command that spawned it.
ProcIds == 1 .. MaxOps
\* Model ids a caller may ask for; the agent offers none of them or the first.
ModelIds == {1, 2}

\* Option::None for ids (adapter handle, protocol session id, model id)
None == 0

\* The id the agent assigns in session/new (opaque; one value is enough to
\* tell it from None).
AgentSessionId == 1

Names == {"a", "b"}

\* Names given to create_session.
CreateNames == {"a"}

\* A key that is not in the session table.
Absent == [status |-> "Absent"]

VARIABLES
    sessions,     \* SessionManager.sessions: id -> SessionEntry (session + adapter)
    db,           \* Database sessions table: id -> row
    worktrees,    \* session ids whose worktree directory exists
    branches,     \* session ids whose branch forkestra/session-<id> exists
    generated,    \* session ids already produced by Uuid::new_v4
    adapters,     \* process id -> adapter object and its child process
    issued,       \* number of commands issued so far
    createTask,   \* per session: the task spawned by spawn_acp_connection
    resumeCalls,  \* resume_session calls in flight
    termCalls,    \* terminate_session calls in flight
    modelCalls,   \* set_session_model calls in flight
    adapterLocks, \* adapters whose tokio Mutex is held
    lastResult    \* what the most recently returned command returned

smVars == <<sessions, db, worktrees, branches, generated, adapters, issued, createTask,
            resumeCalls, termCalls, modelCalls, adapterLocks, lastResult>>

\* ---- data ----------------------------------------------------------------

\* Session as built by create_session.
NewSession(name, local) ==
    [status |-> "Creating", adapter |-> None, acp_session_id |-> None,
     name |-> name, model |-> None, available_models |-> {},
     is_local |-> local]

\* The persisted columns of a session (Database::save_session).
Row(e) ==
    [status |-> e.status, acp_session_id |-> e.acp_session_id,
     name |-> e.name, model |-> e.model, is_local |-> e.is_local]

\* Database::load_sessions: transient fields come back empty.
LoadedSession(r) ==
    [status |-> r.status, adapter |-> None, acp_session_id |-> r.acp_session_id,
     name |-> r.name, model |-> r.model, available_models |-> {},
     is_local |-> r.is_local]

\* Variant of the recovery that leaves every status as stored.
StatusAsStored(st) == st

\* SessionManager::new: a stored Active or Creating session becomes Paused.
RecoveredStatus(st) ==
    IF st \in {"Active", "Creating"} THEN "Paused" ELSE st

RecoveredRow(r) == [r EXCEPT !.status = RecoveredStatus(r.status)]

\* Rows an earlier run of the program can have left for one session.
StoredRows ==
    { [status |-> st, acp_session_id |-> a, name |-> "a", model |-> None,
       is_local |-> FALSE] :
        <<st, a>> \in { <<"Creating", None>>, <<"Active", AgentSessionId>>,
                        <<"Paused", AgentSessionId>>,
                        <<"Terminated", None>>, <<"Terminated", AgentSessionId>>,
                        <<"Error", None>> } }

UnusedAdapter ==
    [sid |-> None, alive |-> FALSE, is_active |-> FALSE,
     acp_session_id |-> None, available_models |-> {}, current_model_id |-> None]

NoTask == [pc |-> "none", proc |-> None, termDuring |-> FALSE]

NoResult == [op |-> "none", sid |-> None, res |-> "none"]

Result(op, s, res) == [op |-> op, sid |-> s, res |-> res]

\* ---- initial state: SessionManager::new ----------------------------------

InitSM ==
    /\ \E stored \in {Absent} \cup StoredRows :
          /\ db = [s \in SessionIds |->
                      IF s = 1 /\ stored # Absent THEN RecoveredRow(stored)
                      ELSE Absent]
          /\ sessions = [s \in SessionIds |->
                      IF s = 1 /\ stored # Absent
                      THEN LoadedSession(RecoveredRow(stored))
                      ELSE Absent]
          /\ generated = IF stored # Absent THEN {1} ELSE {}
          /\ worktrees = IF stored # Absent THEN {1} ELSE {}
          /\ branches = IF stored # Absent THEN {1} ELSE {}
    /\ adapters = [p \in ProcIds |-> UnusedAdapter]
    /\ issued = 0
    /\ createTask = [s \in SessionIds |-> NoTask]
    /\ resumeCalls = {}
    /\ termCalls = {}
    /\ modelCalls = {}
    /\ adapterLocks = {}
    /\ lastResult = NoResult


\* ---- database helpers ----------------------------------------------------

\* Variant of the status update that also clears the stored protocol
\* session id.
StatusUpdateClearsAcpId(d, s, st) ==
    IF d[s] = Absent THEN d
    ELSE [d EXCEPT ![s].status = st, ![s].acp_session_id = None]

\* UPDATE sessions SET status = ? WHERE id = ?  (no row: nothing happens)
update_session_status(d, s, st) ==
    IF d[s] = Absent THEN d ELSE [d EXCEPT ![s].status = st]

update_session_name(d, s, n) ==
    IF d[s] = Absent THEN d ELSE [d EXCEPT ![s].name = n]

update_session_acp_id(d, s, a) ==
    IF d[s] = Absent THEN d ELSE [d EXCEPT ![s].acp_session_id = a]

update_session_model(d, s, m) ==
    IF d[s] = Absent THEN d ELSE [d EXCEPT ![s].model = m]

\* INSERT OR REPLACE
save_session(d, s, e) == [d EXCEPT ![s] = Row(e)]

delete_session(d, s) == [d EXCEPT ![s] = Absent]

\* ---- adapters and their child processes ----------------------------------

\* What the agent reports in its handshake: <<available models, current model>>.
HandshakeModels == { <<{}, None>>, <<{1}, 1>> }

\* Variant in which the adapter is bound to the session without a child.
AdapterWithoutChild(s) == [UnusedAdapter EXCEPT !.sid = s]

\* spawn_acp_process: a fresh adapter with a running child.
SpawnedAdapter(s) == [UnusedAdapter EXCEPT !.sid = s, !.alive = TRUE]

\* Variant of "Store state" that does not store the protocol session id.
EstablishedAdapterWithoutId(a, acp, hm) ==
    [a EXCEPT !.is_active = TRUE,
              !.available_models = hm[1], !.current_model_id = hm[2]]

\* start_session / resume_session "Store state" after a successful handshake.
EstablishedAdapter(a, acp, hm) ==
    [a EXCEPT !.is_active = TRUE, !.acp_session_id = acp,
              !.available_models = hm[1], !.current_model_id = hm[2]]

\* ProviderAdapter::terminate: the child is killed, the state reset.
TerminatedAdapter(a) ==
    [a EXCEPT !.alive = FALSE, !.is_active = FALSE, !.acp_session_id = None,
              !.available_models = {}, !.current_model_id = None]

\* Handshakes of session s that are in flight: 0 stands for the create task,
\* a process id for the resume_session call that spawned it.
InFlight(s) ==
    (IF createTask[s].pc \in {"spawned", "handshake"} THEN {0} ELSE {})
    \cup { r.proc : r \in { x \in resumeCalls : x.sid = s /\ x.pc = "handshake" } }

\* History for the terminate/handshake race: when a terminate_session call
\* returns, every handshake that was in flight when it took the table lock
\* and still is in flight is marked.
MarkCreateTask(t) ==
    [s \in SessionIds |->
        IF s = t.sid /\ 0 \in t.inflight
           /\ createTask[s].pc \in {"spawned", "handshake"}
        THEN [createTask[s] EXCEPT !.termDuring = TRUE]
        ELSE createTask[s]]

MarkResumeCalls(t) ==
    { IF r.sid = t.sid /\ r.proc \in t.inflight /\ r.pc = "handshake"
      THEN [r EXCEPT !.termDuring = TRUE] ELSE r : r \in resumeCalls }

\* ---- create_session ------------------------------------------------------

NextSessionId == Cardinality(generated) + 1

\* What is_git_repo and create_worktree can do for a request: succeed; fail
\* because the project is no repository; fail because the base branch is
\* not found; fail in repo.worktree(...) (path in use), after repo.branch(...)
\* has created the branch.
GitOutcomes == {"ok", "not_a_repo", "no_base_branch", "worktree_failed"}

\* WorktreeManager::create_worktree: the branches that exist afterwards.
BranchesAfterCreate(B, s, git) ==
    IF git \in {"ok", "worktree_failed"} THEN B \cup {s} ELSE B

\* Variant of create_worktree that adds no worktree.
NoWorktreeAfterCreate(W, s, git) == W

\* WorktreeManager::create_worktree: the worktrees that exist afterwards.
WorktreesAfterCreate(W, s, git) ==
    IF git = "ok" THEN W \cup {s} ELSE W

\* create_session(request): git is the outcome of is_git_repo and
\* create_worktree for this request (not consulted in local mode).
CreateSession(name, local, git) ==
    LET s == NextSessionId IN
    /\ s \in SessionIds
    /\ issued < MaxOps
    /\ issued' = issued + 1
    /\ generated' = generated \cup {s}
    /\ IF ~local /\ git # "ok"
       THEN /\ lastResult' = Result("create", s, "Err")
            /\ worktrees' = WorktreesAfterCreate(worktrees, s, git)
            /\ branches' = BranchesAfterCreate(branches, s, git)
            /\ UNCHANGED <<sessions, db, createTask>>
       ELSE /\ sessions' = [sessions EXCEPT ![s] = NewSession(name, local)]
            /\ db' = save_session(db, s, NewSession(name, local))
            /\ worktrees' = IF local THEN worktrees
                            ELSE WorktreesAfterCreate(worktrees, s, git)
            /\ branches' = IF local THEN branches
                           ELSE BranchesAfterCreate(branches, s, git)
            /\ createTask' = [createTask EXCEPT ![s] =
                                [NoTask EXCEPT !.pc = "spawned", !.proc = issued + 1]]
            /\ lastResult' = Result("create", s, "Ok")
    /\ UNCHANGED <<adapters, resumeCalls, termCalls, modelCalls, adapterLocks>>

\* ---- spawn_acp_connection: the background task ---------------------------

\* Variant without the status re-check: the completion is applied whatever
\* the status is.
StillCreatingUnchecked(e) == TRUE

\* "if entry.session.status != SessionStatus::Creating { return }"
StillCreating(e) == e.status = "Creating"

\* Ok branch: "Update session to Active"
ActivateEntry(e, p, a) ==
    [e EXCEPT !.status = "Active", !.acp_session_id = a.acp_session_id,
              !.available_models = a.available_models,
              !.model = a.current_model_id, !.adapter = p]

\* The task starts: the adapter spawns the agent process and begins the handshake.
CreateSpawnProcess(s) ==
    /\ createTask[s].pc = "spawned"
    /\ adapters' = [adapters EXCEPT ![createTask[s].proc] = SpawnedAdapter(s)]
    /\ createTask' = [createTask EXCEPT ![s].pc = "handshake"]
    /\ UNCHANGED <<sessions, db, worktrees, branches, generated, issued, resumeCalls, termCalls,
                   modelCalls, adapterLocks, lastResult>>

\* Ok(()) branch of the match on start_session's result.
CreateSucceeded(s, hm) ==
    /\ createTask[s].pc = "handshake"
    /\ LET p == createTask[s].proc
           a == EstablishedAdapter(adapters[p], AgentSessionId, hm)
       IN /\ adapters' = [adapters EXCEPT ![p] = a]
          /\ IF sessions[s] # Absent /\ StillCreating(sessions[s])
             THEN /\ sessions' = [sessions EXCEPT ![s] = ActivateEntry(@, p, a)]
                  /\ db' = save_session(db, s, ActivateEntry(sessions[s], p, a))
             ELSE UNCHANGED <<sessions, db>>
    /\ createTask' = [createTask EXCEPT ![s].pc = "ok"]
    /\ UNCHANGED <<worktrees, branches, generated, issued, resumeCalls, termCalls,
                   modelCalls, adapterLocks, lastResult>>

\* Variant of the Err branch that sets Error without looking at the status.
FailEntryUnguarded(e) == [e EXCEPT !.status = "Error"]

\* Err(e) branch: "Update session to Error state"
FailEntry(e) ==
    IF StillCreating(e) THEN [e EXCEPT !.status = "Error"] ELSE e

\* start_session returned Err: the spawn failed (pc "spawned") or the
\* handshake failed (pc "handshake"; the child is dropped, not killed).
CreateFailed(s) ==
    /\ createTask[s].pc \in {"spawned", "handshake"}
    /\ IF sessions[s] # Absent
       THEN /\ sessions' = [sessions EXCEPT ![s] = FailEntry(@)]
            /\ db' = IF StillCreating(sessions[s])
                     THEN update_session_status(db, s, "Error") ELSE db
       ELSE UNCHANGED <<sessions, db>>
    /\ createTask' = [createTask EXCEPT ![s].pc = "err"]
    /\ UNCHANGED <<worktrees, branches, generated, adapters, issued, resumeCalls,
                   termCalls, modelCalls, adapterLocks,
                   lastResult>>


\* ---- terminate_session ---------------------------------------------------

\* Variant that sets the status and leaves the adapter in the entry.
TerminateEntryKeepsAdapter(e) == [e EXCEPT !.status = "Terminated"]

\* "let adapter = entry.adapter.take(); entry.session.status = Terminated"
TerminateEntry(e) == [e EXCEPT !.adapter = None, !.status = "Terminated"]

\* First block, under the table write lock.
TerminateBegin(s, cleanup) ==
    /\ issued < MaxOps
    /\ issued' = issued + 1
    /\ IF sessions[s] = Absent
       THEN /\ lastResult' = Result("terminate", s, "NotFound")
            /\ UNCHANGED <<sessions, termCalls>>
       ELSE /\ sessions' = [sessions EXCEPT ![s] = TerminateEntry(@)]
            /\ termCalls' = termCalls \cup
                 { [tid |-> issued + 1, sid |-> s, cleanup |-> cleanup,
                    adapter |-> sessions[s].adapter,
                    is_local |-> sessions[s].is_local,
                    inflight |-> InFlight(s), pc |-> "adapter"] }
            /\ UNCHANGED lastResult
    /\ UNCHANGED <<db, worktrees, branches, generated, adapters, createTask,
                   resumeCalls, modelCalls, adapterLocks>>

\* What remove_worktree can do: succeed; fail before it removed anything
\* (Repository::open, remove_dir_all); fail in branch.delete() after the
\* worktree was removed and pruned.
RemoveOutcomes == {"ok", "failed", "branch_delete_failed"}

\* WorktreeManager::remove_worktree: the worktrees that exist afterwards.
WorktreesAfterRemove(W, s, rm) ==
    IF rm \in {"ok", "branch_delete_failed"} THEN W \ {s} ELSE W

\* Variant of remove_worktree that never deletes the branch.
BranchKeptAfterRemove(B, s, rm) == B

\* WorktreeManager::remove_worktree: the branches that exist afterwards.
BranchesAfterRemove(B, s, rm) ==
    IF rm = "ok" THEN B \ {s} ELSE B

\* adapter.lock().await; adapter.terminate().await; then the status update,
\* the worktree removal (rm: the outcome of remove_worktree) and the row
\* deletion.
TerminateAdapter(t, rm) ==
    /\ t \in termCalls
    /\ t.pc = "adapter"
    /\ t.adapter \notin adapterLocks
    /\ adapters' = IF t.adapter = None THEN adapters
                   ELSE [adapters EXCEPT ![t.adapter] = TerminatedAdapter(@)]
    /\ LET removes == t.cleanup /\ ~t.is_local
           d1 == update_session_status(db, t.sid, "Terminated")
       IN /\ worktrees' = IF removes THEN WorktreesAfterRemove(worktrees, t.sid, rm)
                          ELSE worktrees
          /\ branches' = IF removes THEN BranchesAfterRemove(branches, t.sid, rm)
                         ELSE branches
          /\ IF removes /\ rm # "ok"
             THEN \* remove_worktree(...)? returns the Git error
                  /\ db' = d1
                  /\ termCalls' = termCalls \ {t}
                  /\ lastResult' = Result("terminate", t.sid, "Err")
                  /\ createTask' = MarkCreateTask(t)
                  /\ resumeCalls' = MarkResumeCalls(t)
             ELSE IF t.cleanup
                  THEN /\ db' = delete_session(d1, t.sid)
                       /\ termCalls' = (termCalls \ {t}) \cup {[t EXCEPT !.pc = "remove"]}
                       /\ UNCHANGED <<lastResult, createTask, resumeCalls>>
                  ELSE /\ db' = d1
                       /\ termCalls' = termCalls \ {t}
                       /\ lastResult' = Result("terminate", t.sid, "Ok")
                       /\ createTask' = MarkCreateTask(t)
                       /\ resumeCalls' = MarkResumeCalls(t)
    /\ UNCHANGED <<sessions, generated, issued, modelCalls,
                   adapterLocks>>

\* "sessions.remove(session_id)" under the write lock, then Ok(()).
TerminateRemove(t) ==
    /\ t \in termCalls
    /\ t.pc = "remove"
    /\ sessions' = [sessions EXCEPT ![t.sid] = Absent]
    /\ termCalls' = termCalls \ {t}
    /\ lastResult' = Result("terminate", t.sid, "Ok")
    /\ createTask' = MarkCreateTask(t)
    /\ resumeCalls' = MarkResumeCalls(t)
    /\ UNCHANGED <<db, worktrees, branches, generated, adapters, issued, modelCalls, adapterLocks>>

\* ---- resume_session ------------------------------------------------------

\* Variant of the validation without the acp_session_id requirement.
ResumeCheckWithoutAcpId(e) ==
    IF e = Absent THEN "NotFound"
    ELSE IF e.status = "Active" THEN "InvalidOperation"
    ELSE IF e.adapter # None THEN "InvalidOperation"
    ELSE "Ok"

\* The validation at the head of resume_session (read lock) and the
\* acp_session_id requirement that follows it.
ResumeCheck(e) ==
    IF e = Absent THEN "NotFound"
    ELSE IF e.status = "Active" THEN "InvalidOperation"
    ELSE IF e.adapter # None THEN "InvalidOperation"
    ELSE IF e.acp_session_id = None THEN "InvalidOperation"
    ELSE "Ok"

\* Variant of the update that attaches the adapter and leaves the status.
ResumeEntryKeepsStatus(e, p, a) ==
    [e EXCEPT !.acp_session_id = IF a.acp_session_id # None
                                 THEN a.acp_session_id ELSE @,
              !.available_models = a.available_models,
              !.model = IF @ = None THEN a.current_model_id ELSE @,
              !.adapter = p]

\* "Update session in memory" after a successful resume handshake.
ResumeEntry(e, p, a) ==
    [e EXCEPT !.status = "Active",
              !.acp_session_id = IF a.acp_session_id # None
                                 THEN a.acp_session_id ELSE @,
              !.available_models = a.available_models,
              !.model = IF @ = None THEN a.current_model_id ELSE @,
              !.adapter = p]

\* resume_session up to the handshake: validation, then the adapter spawns a
\* fresh agent process (spawnOk: whether the spawn succeeds).
ResumeSession(s, spawnOk) ==
    LET c == ResumeCheck(sessions[s]) IN
    /\ issued < MaxOps
    /\ issued' = issued + 1
    /\ IF c # "Ok"
       THEN /\ lastResult' = Result("resume", s, c)
            /\ UNCHANGED <<adapters, resumeCalls>>
       ELSE IF ~spawnOk
       THEN /\ lastResult' = Result("resume", s, "Err")
            /\ UNCHANGED <<adapters, resumeCalls>>
       ELSE /\ adapters' = [adapters EXCEPT ![issued + 1] = SpawnedAdapter(s)]
            /\ resumeCalls' = resumeCalls \cup
                 { [sid |-> s, proc |-> issued + 1,
                    acp_session_id |-> sessions[s].acp_session_id,
                    pc |-> "handshake", termDuring |-> FALSE] }
            /\ UNCHANGED lastResult
    /\ UNCHANGED <<sessions, db, worktrees, branches, generated, createTask, termCalls,
                   modelCalls, adapterLocks>>

\* adapter.resume_session(...).await? returned Err: the call returns it.
ResumeFailed(r) ==
    /\ r \in resumeCalls
    /\ r.pc = "handshake"
    /\ resumeCalls' = resumeCalls \ {r}
    /\ lastResult' = Result("resume", r.sid, "Err")
    /\ UNCHANGED <<sessions, db, worktrees, branches, generated, adapters, issued,
                   createTask, termCalls, modelCalls, adapterLocks>>

\* The resume handshake succeeded (it reports the session id it was given);
\* the session is updated under the write lock.
ResumeSucceeded(r, hm) ==
    /\ r \in resumeCalls
    /\ r.pc = "handshake"
    /\ LET a == EstablishedAdapter(adapters[r.proc], r.acp_session_id, hm)
       IN /\ adapters' = [adapters EXCEPT ![r.proc] = a]
          /\ IF sessions[r.sid] # Absent
             THEN /\ sessions' = [sessions EXCEPT ![r.sid] = ResumeEntry(@, r.proc, a)]
                  /\ resumeCalls' = (resumeCalls \ {r}) \cup {[r EXCEPT !.pc = "persist"]}
                  /\ UNCHANGED lastResult
             ELSE /\ resumeCalls' = resumeCalls \ {r}
                  /\ lastResult' = Result("resume", r.sid, "NotFound")
                  /\ UNCHANGED sessions
    /\ UNCHANGED <<db, worktrees, branches, generated, issued, createTask, termCalls,
                   modelCalls, adapterLocks>>

\* "Persist status change to database", "Persist new ACP session ID", Ok(..).
ResumePersist(r) ==
    /\ r \in resumeCalls
    /\ r.pc = "persist"
    /\ db' = LET d1 == update_session_status(db, r.sid, "Active")
             IN IF r.acp_session_id # None
                THEN update_session_acp_id(d1, r.sid, r.acp_session_id) ELSE d1
    /\ resumeCalls' = resumeCalls \ {r}
    /\ lastResult' = Result("resume", r.sid, "Ok")
    /\ UNCHANGED <<sessions, worktrees, branches, generated, adapters, issued,
                   createTask, termCalls, modelCalls, adapterLocks>>

\* ---- rename_session ------------------------------------------------------

RenameSession(s, n) ==
    /\ issued < MaxOps
    /\ issued' = issued + 1
    /\ IF sessions[s] = Absent
       THEN /\ lastResult' = Result("rename", s, "NotFound")
            /\ UNCHANGED <<sessions, db>>
       ELSE /\ sessions' = [sessions EXCEPT ![s].name = n]
            /\ db' = update_session_name(db, s, n)
            /\ lastResult' = Result("rename", s, "Ok")
    /\ UNCHANGED <<worktrees, branches, generated, adapters, createTask,
                   resumeCalls, termCalls, modelCalls, adapterLocks>>


\* ---- set_session_model ---------------------------------------------------

\* Variant of the validation without the membership test.
ModelCheckAnyModel(e, m) ==
    IF e = Absent THEN "NotFound" ELSE "Ok"

\* "Validate model is available for this session"
ModelCheck(e, m) ==
    IF e = Absent THEN "NotFound"
    ELSE IF e.available_models # {} /\ m \notin e.available_models
    THEN "InvalidOperation"
    ELSE "Ok"

SetModelValidate(s, m) ==
    /\ issued < MaxOps
    /\ issued' = issued + 1
    /\ LET c == ModelCheck(sessions[s], m) IN
       IF c # "Ok"
       THEN /\ lastResult' = Result("set_model", s, c)
            /\ UNCHANGED modelCalls
       ELSE /\ modelCalls' = modelCalls \cup
                 { [mid |-> issued + 1, sid |-> s, model |-> m,
                    adapter |-> None, pc |-> "get"] }
            /\ UNCHANGED lastResult
    /\ UNCHANGED <<sessions, db, worktrees, branches, generated, adapters, createTask, resumeCalls, termCalls, adapterLocks>>

\* "Get adapter and call set_model": the second read-lock block.
SetModelGetAdapter(c) ==
    /\ c \in modelCalls
    /\ c.pc = "get"
    /\ LET p == IF sessions[c.sid] = Absent THEN None ELSE sessions[c.sid].adapter
       IN IF p = None
          THEN /\ modelCalls' = modelCalls \ {c}
               /\ lastResult' = Result("set_model", c.sid, "InvalidOperation")
          ELSE /\ modelCalls' = (modelCalls \ {c}) \cup
                                {[c EXCEPT !.adapter = p, !.pc = "lock"]}
               /\ UNCHANGED lastResult
    /\ UNCHANGED <<sessions, db, worktrees, branches, generated, adapters, issued,
                   createTask, resumeCalls, termCalls, adapterLocks>>

\* adapter.lock().await, then adapter.set_model: a terminated adapter has no
\* stdin channel and fails at once; otherwise the request goes to the agent.
SetModelLock(c) ==
    /\ c \in modelCalls
    /\ c.pc = "lock"
    /\ c.adapter \notin adapterLocks
    /\ IF ~adapters[c.adapter].is_active
       THEN /\ modelCalls' = modelCalls \ {c}
            /\ lastResult' = Result("set_model", c.sid, "Err")
            /\ UNCHANGED adapterLocks
       ELSE /\ modelCalls' = (modelCalls \ {c}) \cup {[c EXCEPT !.pc = "await"]}
            /\ adapterLocks' = adapterLocks \cup {c.adapter}
            /\ UNCHANGED lastResult
    /\ UNCHANGED <<sessions, db, worktrees, branches, generated, adapters, issued,
                   createTask, resumeCalls, termCalls>>

\* The agent's answer to session/set_model (ok) or an error or timeout.
SetModelReply(c, ok) ==
    /\ c \in modelCalls
    /\ c.pc = "await"
    /\ adapterLocks' = adapterLocks \ {c.adapter}
    /\ IF ok
       THEN /\ modelCalls' = (modelCalls \ {c}) \cup {[c EXCEPT !.pc = "apply"]}
            /\ UNCHANGED lastResult
       ELSE /\ modelCalls' = modelCalls \ {c}
            /\ lastResult' = Result("set_model", c.sid, "Err")
    /\ UNCHANGED <<sessions, db, worktrees, branches, generated, adapters, issued,
                   createTask, resumeCalls, termCalls>>

\* "Update session in memory and database"
SetModelApply(c) ==
    /\ c \in modelCalls
    /\ c.pc = "apply"
    /\ modelCalls' = modelCalls \ {c}
    /\ IF sessions[c.sid] = Absent
       THEN /\ lastResult' = Result("set_model", c.sid, "NotFound")
            /\ UNCHANGED <<sessions, db>>
       ELSE /\ sessions' = [sessions EXCEPT ![c.sid].model = c.model]
            /\ db' = update_session_model(db, c.sid, c.model)
            /\ lastResult' = Result("set_model", c.sid, "Ok")
    /\ UNCHANGED <<worktrees, branches, generated, adapters, issued, createTask,
                   resumeCalls, termCalls, adapterLocks>>



\* ---- send_message, send_interaction_response ------------------------------

VARIABLES
    sendCalls,    \* send_message / send_interaction_response calls in flight
    enqueued      \* per adapter: the calls whose line its send_message put on the
                  \* stdin channel, in the order of the channel

sendVars == <<sendCalls, enqueued>>

InitSend ==
    /\ sendCalls = {}
    /\ enqueued = [p \in ProcIds |-> <<>>]

\* The two operations have the same body.
SendOps == {"send_message", "send_interaction_response"}

\* Variant that yields an adapter handle also when none is attached.
AttachedOrFirstAdapter(e) ==
    IF e = Absent \/ e.adapter = None THEN 1 ELSE e.adapter

\* "sessions.get(session_id).and_then(|e| e.adapter.clone())"
AttachedAdapter(e) ==
    IF e = Absent THEN None ELSE e.adapter

\* The read-lock block: without an adapter the call returns NotFound.
SessionSendMessage(op, s) ==
    /\ issued < MaxOps
    /\ issued' = issued + 1
    /\ LET p == AttachedAdapter(sessions[s]) IN
       IF p = None
       THEN /\ lastResult' = Result(op, s, "NotFound")
            /\ UNCHANGED sendCalls
       ELSE /\ sendCalls' = sendCalls \cup
                 { [cid |-> issued + 1, op |-> op, sid |-> s, adapter |-> p] }
            /\ UNCHANGED lastResult
    /\ UNCHANGED <<sessions, db, worktrees, branches, generated, adapters, createTask,
                   resumeCalls, termCalls, modelCalls, adapterLocks, enqueued>>

\* adapter.lock().await; adapter.send_message(..).await?; Ok(()). A
\* terminated adapter has no stdin channel ("Session not started"); otherwise
\* the line is put on the channel unless the channel is closed (open).
SessionSendDeliver(c, open) ==
    /\ c \in sendCalls
    /\ c.adapter \notin adapterLocks
    /\ sendCalls' = sendCalls \ {c}
    /\ IF adapters[c.adapter].is_active /\ open
       THEN /\ enqueued' = [enqueued EXCEPT ![c.adapter] = Append(@, c.cid)]
            /\ lastResult' = Result(c.op, c.sid, "Ok")
       ELSE /\ lastResult' = Result(c.op, c.sid, "Err")
            /\ UNCHANGED enqueued
    /\ UNCHANGED <<sessions, db, worktrees, branches, generated, adapters, issued,
                   createTask, resumeCalls, termCalls, modelCalls, adapterLocks>>

\* ---- create_session: what holds when it returns ---------------------------

\* create_session runs in this step (it draws a fresh session id).
CreateStep == generated' # generated

\* The id drawn by the create_session of this step.
CreatedId == CHOOSE s \in generated' : s \notin generated

C12_FailedCreateLeavesNothing ==
    [][(CreateStep /\ lastResult'.res = "Err") =>
          LET s == CreatedId IN
          /\ sessions'[s] = Absent
          /\ db'[s] = Absent
          /\ s \notin worktrees'
          /\ s \notin branches']_smVars

\* ---- terminate_session: what holds when it returns ------------------------

\* The terminate_session call t returns res in this step.
TerminateReturns(t, res) ==
    /\ t \in termCalls
    /\ \A u \in termCalls' : u.tid # t.tid
    /\ lastResult' = Result("terminate", t.sid, res)

TerminateBegins(t) == t \in termCalls' /\ \A u \in termCalls : u.tid # t.tid

Removed(s) ==
    \/ sessions[s] # Absent /\ sessions'[s] = Absent
    \/ db[s] # Absent /\ db'[s] = Absent
    \/ s \in worktrees /\ s \notin worktrees'
    \/ s \in branches /\ s \notin branches'

\* C15: the entry, the row, the worktree and the branch of a session are
\* removed only by a terminate_session call with cleanup on a session that
\* is not local-mode; terminate_session(cleanup=true) on a local-mode
\* session leaves the session in the table and in the store.
C15_RemovalOnlyForNonLocalCleanup ==
    [][\A s \in SessionIds :
          Removed(s) =>
             \E t \in termCalls : t.sid = s /\ t.cleanup /\ ~t.is_local]_smVars

\* ---- resume_session: which sessions it brings back -------------------------

Resumable == {"Paused", "Terminated", "Error"}

\* resume_session(s) is accepted in this step: it has spawned its adapter
\* and its handshake is in flight.
ResumeAccepted(s) ==
    \E r \in resumeCalls' :
        /\ r.sid = s /\ r.pc = "handshake"
        /\ \A x \in resumeCalls : x.proc # r.proc

ResumeReturnsOk(r) ==
    /\ r \in resumeCalls
    /\ r.pc = "persist"
    /\ r \notin resumeCalls'
    /\ lastResult' = Result("resume", r.sid, "Ok")

\* The process p belongs to no entry of the table and to no call in progress.
Unreferenced(p) ==
    /\ \A s \in SessionIds :
          /\ sessions[s] # Absent => sessions[s].adapter # p
          /\ createTask[s].proc # p
    /\ \A r \in resumeCalls : r.proc # p
    /\ \A t \in termCalls : t.adapter # p

\* The adapter the call r attached is still the one in the session's entry,
\* and no terminate_session call on the session is in progress.
StillAttached(r) ==
    /\ sessions[r.sid] # Absent
    /\ sessions[r.sid].adapter = r.proc
    /\ \A t \in termCalls : t.sid # r.sid

NoModelEffect == UNCHANGED <<sessions, db, adapters, adapterLocks, modelCalls>>

\* C19: set_session_model with a model that is not in the session's
\* non-empty available_models returns InvalidOperation in its validation
\* step: no call reaches the adapter and the entry and the row are unchanged.
\* With an empty available_models the validation lets any model through to
\* the adapter step.
C19_UnavailableModelRejected ==
    [][\A s \in SessionIds, m \in ModelIds :
          (SetModelValidate(s, m) /\ sessions[s] # Absent) =>
              IF sessions[s].available_models # {}
                 /\ m \notin sessions[s].available_models
              THEN /\ lastResult' = Result("set_model", s, "InvalidOperation")
                   /\ NoModelEffect
              ELSE /\ \E c \in modelCalls' :
                         /\ c \notin modelCalls
                         /\ c.sid = s /\ c.model = m /\ c.pc = "get"
                   /\ UNCHANGED <<sessions, db, adapters, adapterLocks>>]_smVars

\* C19 witness: a stored session was resumed, its agent advertised models,
\* and with nothing else in progress the last call to return is a
\* set_session_model rejected as InvalidOperation while the adapter is
\* attached; the model of the entry and of the row is the one from before.
C19_Witness ==
    \E s \in SessionIds :
        /\ lastResult = Result("set_model", s, "InvalidOperation")
        /\ sessions[s] # Absent
        /\ sessions[s].status = "Active"
        /\ sessions[s].adapter # None
        /\ sessions[s].available_models # {}
        /\ createTask[s].pc = "none"
        /\ resumeCalls = {} /\ termCalls = {} /\ modelCalls = {}
        /\ db[s] # Absent
        /\ db[s].model = None

\* ---- send_message, send_interaction_response: sessions without adapter ------

\* The call c returns res in this step.
SendReturns(c, res) ==
    /\ c \in sendCalls
    /\ c \notin sendCalls'
    /\ lastResult' = Result(c.op, c.sid, res)

C21_SendsInIssueOrder ==
    \A p \in ProcIds :
        \A i \in DOMAIN enqueued[p], j \in DOMAIN enqueued[p] :
            i < j => enqueued[p][i] < enqueued[p][j]

\* ---- the protocol session id of a session ---------------------------------

\* C29: an Active session has a protocol session id and a Creating session
\* has none; the id of a session is set only by the step that makes it
\* Active, the completion of a handshake, so a session that never completed
\* one has none.
C29_ActiveHasProtocolId ==
    /\ [](\A s \in SessionIds :
             sessions[s] # Absent =>
                 /\ sessions[s].status = "Active" => sessions[s].acp_session_id # None
                 /\ sessions[s].status = "Creating" => sessions[s].acp_session_id = None)
    /\ [][\A s \in SessionIds :
             (/\ sessions'[s] # Absent
              /\ sessions'[s].acp_session_id # None
              /\ sessions[s] = Absent \/ sessions[s].acp_session_id = None) =>
                 /\ sessions[s] # Absent
                 /\ sessions'[s].status = "Active"
                 /\ createTask[s].pc = "handshake"]_smVars

\* C29 witness: the handshake of a session's create task has completed and
\* the session is Active with the protocol session id the agent assigned.
C29_Witness ==
    \E s \in SessionIds :
        /\ sessions[s] # Absent
        /\ createTask[s].pc = "ok"
        /\ sessions[s].status = "Active"
        /\ sessions[s].acp_session_id = AgentSessionId

\* ---- the store and the session table ---------------------------------------

\* No operation that changes session s is in progress.
Settled(s) ==
    /\ createTask[s].pc \notin {"spawned", "handshake"}
    /\ \A r \in resumeCalls : r.sid # s
    /\ \A t \in termCalls : t.sid # s
    /\ \A m \in modelCalls : m.sid # s

\* C30: when every operation on a session has completed, its stored row
\* equals the session in the table on every persisted field.
C30_StoredRowEqualsSession ==
    \A s \in SessionIds :
        (sessions[s] # Absent /\ Settled(s)) => db[s] = Row(sessions[s])

\* ---- properties of the Session Manager -----------------------------------

\* The create task of session s reaches the end of its match on the
\* handshake result in this step.
CreateCompletes(s) ==
    /\ createTask[s].pc \in {"spawned", "handshake"}
    /\ createTask'[s].pc \in {"ok", "err"}

\* The resume_session call r leaves its handshake in this step.
ResumeCompletes(r) ==
    /\ r \in resumeCalls
    /\ r.pc = "handshake"
    /\ r \notin resumeCalls'

\* C1: the completion of the create handshake changes the session only if it
\* is still Creating: success makes it Active with the task's adapter
\* attached, failure makes it Error; a session that is no longer Creating, or
\* no longer in the table, is left exactly as it is.
C1_CompletionOnlyFromCreating ==
    [][\A s \in SessionIds :
        CreateCompletes(s) =>
            IF sessions[s] # Absent /\ sessions[s].status = "Creating"
            THEN /\ createTask'[s].pc = "ok" =>
                       /\ sessions'[s].status = "Active"
                       /\ sessions'[s].adapter = createTask[s].proc
                 /\ createTask'[s].pc = "err" =>
                       /\ sessions'[s].status = "Error"
                       /\ sessions'[s].adapter = None
            ELSE sessions'[s] = sessions[s]]_smVars

\* C1 witness: a create handshake succeeded after a terminate_session call
\* had returned, and the session is still Terminated without an adapter.
C1_Witness ==
    \E s \in SessionIds :
        /\ createTask[s].pc = "ok"
        /\ createTask[s].termDuring
        /\ sessions[s] # Absent
        /\ sessions[s].status = "Terminated"
        /\ sessions[s].adapter = None

\* C2 (as claimed): when a handshake completes after a terminate_session
\* call was made and returned during it, the completion neither sets the
\* session Active nor attaches the handshake's adapter.
C2_TerminateRaceFree ==
    [][/\ \A s \in SessionIds :
            (CreateCompletes(s) /\ createTask[s].termDuring /\ sessions'[s] # Absent) =>
                /\ sessions'[s].adapter # createTask[s].proc
                /\ sessions'[s].status = "Active" => sessions[s].status = "Active"
       /\ \A r \in resumeCalls :
            (ResumeCompletes(r) /\ r.termDuring /\ sessions'[r.sid] # Absent) =>
                /\ sessions'[r.sid].adapter # r.proc
                /\ sessions'[r.sid].status = "Active" =>
                       sessions[r.sid].status = "Active"]_smVars

\* C3: an entry of the session table has an adapter attached exactly when
\* its status is Active.
C3_AdapterIffActive ==
    \A s \in SessionIds :
        sessions[s] # Absent =>
            (sessions[s].adapter # None <=> sessions[s].status = "Active")

\* C3 witness: an Active session with its adapter attached, for which an
\* earlier adapter had been spawned as well (after a terminate or a second
\* resume).
C3_Witness ==
    \E s \in SessionIds :
        /\ sessions[s] # Absent
        /\ sessions[s].status = "Active"
        /\ sessions[s].adapter # None
        /\ \E p \in ProcIds : p # sessions[s].adapter /\ adapters[p].sid = s

\* The transitions the claim lists.
ClaimedTransitions ==
    { <<"Creating", "Active">>, <<"Creating", "Error">>,
      <<"Active", "Paused">>, <<"Active", "Terminated">>, <<"Active", "Error">>,
      <<"Paused", "Active">>, <<"Terminated", "Active">>, <<"Error", "Active">> }

\* The status of s changes in this step (s is in the table before and after).
StatusChanges(s) ==
    /\ sessions[s] # Absent
    /\ sessions'[s] # Absent
    /\ sessions'[s].status # sessions[s].status

\* A resume_session call on s applies its result to the table in this step.
ResumeApplies(s) ==
    \E r \in resumeCalls : r.sid = s /\ ResumeCompletes(r)

\* A terminate_session call on s runs its first block in this step.
TerminateStarts(s) ==
    \E t \in termCalls' \ termCalls : t.sid = s

C9_ResumeRejected ==
    [][\A s \in SessionIds, spawnOk \in BOOLEAN :
        ResumeSession(s, spawnOk) =>
            LET e == sessions[s]
                rejected == \/ e = Absent
                            \/ e.status = "Active"
                            \/ e.adapter # None
                            \/ e.acp_session_id = None
            IN rejected =>
                /\ lastResult' = Result("resume", s,
                       IF e = Absent THEN "NotFound" ELSE "InvalidOperation")
                /\ sessions' = sessions
                /\ db' = db
                /\ adapters' = adapters
                /\ resumeCalls' = resumeCalls]_smVars

\* C9 witness: resume_session was rejected with Invalid-Operation on a
\* stored session that an earlier resume had made Active.
C9_Witness ==
    \E s \in SessionIds :
        /\ lastResult = Result("resume", s, "InvalidOperation")
        /\ sessions[s] # Absent
        /\ sessions[s].status = "Active"
        /\ sessions[s].adapter # None
        /\ createTask[s].pc = "none"

\* The agent processes of session s that a handshake in flight or the session
\* table holds, and that are running.
LiveConnections(s) ==
    { p \in ProcIds :
        /\ adapters[p].sid = s
        /\ adapters[p].alive
        /\ \/ sessions[s] # Absent /\ sessions[s].adapter = p
           \/ createTask[s].pc = "handshake" /\ createTask[s].proc = p
           \/ \E r \in resumeCalls : r.proc = p /\ r.pc = "handshake" }

\* C10 (as claimed): a session never has more than one running agent process
\* and connection.
C10_OneProcessPerSession ==
    \A s \in SessionIds : Cardinality(LiveConnections(s)) <= 1


\* ---- agent processes of sessions that are not running -------------------

\* No operation that starts or stops an agent for session s is under way:
\* no handshake in flight, no terminate or resume call between its steps.
AtRest(s) ==
    /\ InFlight(s) = {}
    /\ \A t \in termCalls : t.sid # s
    /\ \A r \in resumeCalls : r.sid # s

\* C37: when a session is not Active (or is not in the table) and nothing
\* is under way for it, no agent process spawned for it is running.
C37_NoAgentWithoutActiveSession ==
    \A s \in SessionIds :
       (AtRest(s) /\ (sessions[s] = Absent \/ sessions[s].status # "Active")) =>
          \A p \in ProcIds : adapters[p].sid = s => ~adapters[p].alive

\* ==== one protocol connection (KimiAdapter over acp_helper) ===============

MaxRequests == 3       \* JSON-RPC requests built while the agent can read them
MaxPerms == 1          \* session/request_permission requests the agent makes

\* acp_initialize: "for attempt in 1..=15"
InitAttempts == 15

\* KimiAdapter::new: next_request_id starts at 10.
FirstDynamicId == 10

\* The literal ids of the handshake requests and of session/set_model.
InitializeId == 1
SessionSetupId == 2
ResumeFallbackId == 3
SetModelId == 3

VARIABLES
    pc,             \* where the adapter's (serialized) caller stands
    hsKind,         \* "start" (acp_handshake) or "resume" (acp_resume_handshake)
    attempt,        \* acp_initialize's loop counter
    supports_load,  \* agent_capabilities.load_session of the initialize result
    stdin_tx,       \* adapter.stdin_tx is Some
    pending,        \* pending_requests: set of [id, rq], at most one per id
    next_request_id,\* adapter.next_request_id
    pending_permission, \* adapter.pending_permission: None or its jsonrpc_id
    await,          \* the oneshot receiver the caller waits on in send_and_await
    reqCount,       \* requests built so far; request rq is the rq-th one
    stdinQ,         \* the mpsc channel to the stdin writer task
    writerAlive,    \* the stdin writer task runs (its receiver exists)
    agentAlive,     \* the agent process runs
    agentInbox,     \* requests the agent has read and not answered
    agentPerms,     \* permission requests the agent has made
    stdoutQ,        \* lines the agent wrote that the reader has not read
    readerDone,     \* the stdout reader task has seen end-of-stream
    sent,           \* history: [id, rq] of every request handed to the writer
    lastReturn,     \* what the latest send_and_await / send_message returned
    message_id,     \* adapter.current_message_id: the number of ids drawn so far
    resume_acp_id   \* the acp_session_id handed to resume_session, or None

connVars == <<pc, hsKind, attempt, supports_load, stdin_tx, pending, next_request_id,
              pending_permission, await, reqCount, stdinQ, writerAlive,
              agentAlive, agentInbox, agentPerms, stdoutQ, readerDone, sent,
              lastReturn, message_id, resume_acp_id>>

NoAwait == [rq |-> 0, id |-> 0, chan |-> "none", got |-> 0, res |-> "none",
            load |-> FALSE, by |-> "none"]

NoReturn == [rq |-> 0, outcome |-> "none", got |-> 0]

InitConn ==
    /\ pc = "new"
    /\ hsKind = "none"
    /\ attempt = 0
    /\ supports_load = FALSE
    /\ stdin_tx = FALSE
    /\ pending = {}
    /\ next_request_id = FirstDynamicId
    /\ pending_permission = None
    /\ await = NoAwait
    /\ reqCount = 0
    /\ stdinQ = <<>>
    /\ writerAlive = FALSE
    /\ agentAlive = FALSE
    /\ agentInbox = {}
    /\ agentPerms = 0
    /\ stdoutQ = <<>>
    /\ readerDone = FALSE
    /\ sent = {}
    /\ lastReturn = NoReturn
    /\ message_id = 0
    /\ resume_acp_id = None

\* ---- pending-request table -----------------------------------------------

\* HashMap::insert: a slot already keyed by id is replaced.
PendingInsert(P, id, rq) == { x \in P : x.id # id } \cup { [id |-> id, rq |-> rq] }

\* HashMap::remove
PendingRemove(P, id) == { x \in P : x.id # id }

\* Variant of the end-of-stream handling that leaves the table as it is.
KeptAtEof(P) == P

\* "pending.clear()" at end-of-stream (spawn_stdout_reader).
ClearedAtEof(P) == {}

\* The receiver of `await` sees its sender dropped when its slot leaves the
\* table without a response having been sent (`by` records which task
\* cleared the table).
Dropped(a, P, by) ==
    IF a.chan = "open" /\ [id |-> a.id, rq |-> a.rq] \notin P
    THEN [a EXCEPT !.chan = "closed", !.by = by] ELSE a

\* The protocol session ids the Session Manager can have stored.
StoredAcpIds == {1, 2}

\* A request as JsonRpcRequest::new builds it; session/load and
\* session/resume carry the "sessionId" acp_resume_handshake was given.
RequestLine(id, rq, method) ==
    [kind |-> "request", id |-> id, rq |-> rq, method |-> method,
     session |-> IF method \in {"session/load", "session/resume"}
                 THEN resume_acp_id ELSE None]

\* The texts a caller sends, and the same without surrounding blanks.
Messages == {"allow", " allow "}

\* Variant that passes the text on as it is.
Untrimmed(m) == m

\* str::trim
Trim(m) == IF m = " allow " THEN "allow" ELSE m

\* build_permission_response
PermissionResponseLine(id, option) ==
    [kind |-> "permission_response", id |-> id, rq |-> 0, method |-> "none",
     option |-> option]

\* ---- send_and_await ------------------------------------------------------

\* The requests the model follows: MaxRequests of any kind, and beyond them
\* the initialize attempts made after the agent has exited (acp_initialize
\* bounds those itself).
WithinBounds(method) ==
    \/ reqCount < MaxRequests
    \/ method = "initialize" /\ ~agentAlive

\* send_and_await up to its timeout(...).await: the slot is registered in
\* table P, the request is handed to the stdin writer; if the writer is gone
\* the call returns the send error at once (pcErr), else it waits (pcWait).
StartRequest(P, id, method, pcWait, pcErr) ==
    LET rq == reqCount + 1 IN
    /\ WithinBounds(method)
    /\ reqCount' = rq
    /\ pending' = PendingInsert(P, id, rq)
    /\ IF writerAlive
       THEN /\ stdinQ' = Append(stdinQ, RequestLine(id, rq, method))
            /\ sent' = sent \cup { [id |-> id, rq |-> rq] }
            /\ await' = [NoAwait EXCEPT !.rq = rq, !.id = id, !.chan = "open"]
            /\ pc' = pcWait
            /\ UNCHANGED lastReturn
       ELSE /\ await' = NoAwait
            /\ pc' = pcErr
            /\ lastReturn' = [rq |-> rq, outcome |-> "SendFailed", got |-> 0]
            /\ UNCHANGED <<stdinQ, sent>>

\* The outcomes the match in send_and_await can take in the current state:
\* the response, the dropped sender, or (while nothing arrived) the timeout.
AwaitOutcomes ==
    IF await.chan = "open" THEN {"Timeout"}
    ELSE IF await.chan = "closed" THEN {"Exited"}
    ELSE IF await.chan = "value"
         THEN (IF await.res = "error" THEN {"RpcError"} ELSE {"Ok"})
    ELSE {}

\* The table after send_and_await's match: the timeout arm removes the slot.
AfterAwait(outcome) ==
    IF outcome = "Timeout" THEN PendingRemove(pending, await.id) ELSE pending

Returned(outcome) == [rq |-> await.rq, outcome |-> outcome, got |-> await.got]


\* ---- the handshake -------------------------------------------------------

\* start_session / resume_session: spawn_acp_process starts the child, the
\* stdin writer and the readers; acp_initialize sends its first attempt.
StartSession(kind, acp) ==
    /\ pc = "new"
    /\ acp \in IF kind = "resume" THEN StoredAcpIds ELSE {None}
    /\ resume_acp_id' = acp
    /\ hsKind' = kind
    /\ attempt' = 1
    /\ agentAlive' = TRUE
    /\ writerAlive' = TRUE
    /\ LET rq == reqCount + 1 IN
          /\ reqCount' = rq
          /\ pending' = PendingInsert(pending, InitializeId, rq)
          /\ stdinQ' = Append(stdinQ, RequestLine(InitializeId, rq, "initialize"))
          /\ sent' = sent \cup { [id |-> InitializeId, rq |-> rq] }
          /\ await' = [NoAwait EXCEPT !.rq = rq, !.id = InitializeId, !.chan = "open"]
    /\ pc' = "init_wait"
    /\ UNCHANGED <<supports_load, stdin_tx, next_request_id, pending_permission,
                   agentInbox, agentPerms, stdoutQ, readerDone, lastReturn>>

\* An initialize attempt returns: Ok with a result that parses and carries
\* the client's protocol version ends the loop; Ok with any other result
\* fails the handshake; an Err leads to the 2 s sleep.
InitializeReturns(outcome) ==
    /\ pc = "init_wait"
    /\ outcome \in AwaitOutcomes
    /\ pending' = AfterAwait(outcome)
    /\ lastReturn' = Returned(outcome)
    /\ pc' = IF outcome = "Ok"
             THEN (IF await.res = "malformed" THEN "failed" ELSE "init_done")
             ELSE "init_sleep"
    /\ supports_load' = IF outcome = "Ok" THEN await.load ELSE supports_load
    /\ await' = NoAwait
    /\ UNCHANGED <<hsKind, attempt, stdin_tx, next_request_id, pending_permission,
                   reqCount, stdinQ, writerAlive, agentAlive, agentInbox,
                   agentPerms, stdoutQ, readerDone, sent>>

\* Variant of the loop that has no ceiling.
RetriesForever(n) == TRUE

\* "for attempt in 1..=15": another attempt follows attempt n.
AnotherAttempt(n) == n < InitAttempts

\* After the sleep: the next attempt, with the same request id, or the
\* failure "after 15 attempts".
InitializeRetry ==
    /\ pc = "init_sleep"
    /\ IF AnotherAttempt(attempt)
       THEN /\ attempt' = attempt + 1
            /\ StartRequest(pending, InitializeId, "initialize", "init_wait", "init_sleep")
       ELSE /\ pc' = "failed"
            /\ UNCHANGED <<attempt, pending, reqCount, stdinQ, sent, await, lastReturn>>
    /\ UNCHANGED <<hsKind, supports_load, stdin_tx, next_request_id,
                   pending_permission, writerAlive, agentAlive, agentInbox,
                   agentPerms, stdoutQ, readerDone>>

\* Variant of the choice that never tries session/load.
ResumeMethodNeverLoad(load) == "session/resume"

\* "if is_new_process && supports_load" with is_new_process always true.
ResumeMethod(load) == IF load THEN "session/load" ELSE "session/resume"

\* Step 2 of the handshake: session/new, or session/load when the agent
\* advertises it, or session/resume.
SessionSetup ==
    /\ pc = "init_done"
    /\ IF hsKind = "start"
       THEN StartRequest(pending, SessionSetupId, "session/new", "new_wait", "failed")
       ELSE IF ResumeMethod(supports_load) = "session/load"
       THEN StartRequest(pending, SessionSetupId, "session/load", "load_wait", "load_fallback")
       ELSE StartRequest(pending, SessionSetupId, "session/resume", "resume_wait", "failed")
    /\ UNCHANGED <<hsKind, attempt, supports_load, stdin_tx, next_request_id,
                   pending_permission, writerAlive, agentAlive, agentInbox,
                   agentPerms, stdoutQ, readerDone>>

\* session/new or session/resume returns: the adapter stores its state
\* (stdin_tx, acp_session_id, is_active) or the handshake fails.
SetupReturns(outcome) ==
    /\ pc \in {"new_wait", "resume_wait"}
    /\ outcome \in AwaitOutcomes
    /\ pending' = AfterAwait(outcome)
    /\ lastReturn' = Returned(outcome)
    /\ LET ok == outcome = "Ok" /\ await.res # "malformed" IN
          /\ pc' = IF ok THEN "ready" ELSE "failed"
          /\ stdin_tx' = ok
    /\ await' = NoAwait
    /\ UNCHANGED <<hsKind, attempt, supports_load, next_request_id,
                   pending_permission, reqCount, stdinQ, writerAlive, agentAlive,
                   agentInbox, agentPerms, stdoutQ, readerDone, sent>>

\* session/load returns: its result is ignored; an Err falls back to
\* session/resume.
LoadReturns(outcome) ==
    /\ pc = "load_wait"
    /\ outcome \in AwaitOutcomes
    /\ pending' = AfterAwait(outcome)
    /\ lastReturn' = Returned(outcome)
    /\ pc' = IF outcome = "Ok" THEN "ready" ELSE "load_fallback"
    /\ stdin_tx' = (outcome = "Ok")
    /\ await' = NoAwait
    /\ UNCHANGED <<hsKind, attempt, supports_load, next_request_id,
                   pending_permission, reqCount, stdinQ, writerAlive, agentAlive,
                   agentInbox, agentPerms, stdoutQ, readerDone, sent>>

\* "session/load failed — fallback to session/resume"
LoadFallback ==
    /\ pc = "load_fallback"
    /\ StartRequest(pending, ResumeFallbackId, "session/resume", "resume_wait", "failed")
    /\ UNCHANGED <<hsKind, attempt, supports_load, stdin_tx, next_request_id,
                   pending_permission, writerAlive, agentAlive, agentInbox,
                   agentPerms, stdoutQ, readerDone>>

\* ---- adapter operations after the handshake -------------------------------

\* KimiAdapter::next_id
next_id == next_request_id

\* KimiAdapter::send_message.  Without stdin_tx: "Session not started".
\* With a stored permission request: the request is taken and the message
\* goes out as its response.  Otherwise a session/prompt with a fresh id
\* whose slot is registered with a receiver nobody awaits.
SendMessage(m) ==
    /\ pc \in {"ready", "terminated"}
    /\ IF ~stdin_tx
       THEN /\ lastReturn' = [rq |-> 0, outcome |-> "NotStarted", got |-> 0]
            /\ UNCHANGED <<pending, next_request_id, pending_permission, reqCount,
                           stdinQ, sent, message_id>>
       ELSE IF pending_permission # None
       THEN /\ pending_permission' = None
            /\ UNCHANGED message_id
            /\ IF writerAlive
               THEN /\ stdinQ' = Append(stdinQ,
                                        PermissionResponseLine(pending_permission, Trim(m)))
                    /\ lastReturn' = [rq |-> 0, outcome |-> "Ok", got |-> 0]
               ELSE /\ lastReturn' = [rq |-> 0, outcome |-> "SendFailed", got |-> 0]
                    /\ UNCHANGED stdinQ
            /\ UNCHANGED <<pending, next_request_id, reqCount, sent>>
       ELSE LET rq == reqCount + 1
                id == next_id IN
            /\ reqCount < MaxRequests
            /\ reqCount' = rq
            /\ message_id' = message_id + 1
            /\ next_request_id' = next_request_id + 1
            /\ pending' = PendingInsert(pending, id, rq)
            /\ IF writerAlive
               THEN /\ stdinQ' = Append(stdinQ, RequestLine(id, rq, "session/prompt"))
                    /\ sent' = sent \cup { [id |-> id, rq |-> rq] }
                    /\ lastReturn' = [rq |-> rq, outcome |-> "Ok", got |-> 0]
               ELSE /\ lastReturn' = [rq |-> rq, outcome |-> "SendFailed", got |-> 0]
                    /\ UNCHANGED <<stdinQ, sent>>
            /\ UNCHANGED pending_permission
    /\ UNCHANGED <<pc, hsKind, attempt, supports_load, stdin_tx, await, writerAlive,
                   agentAlive, agentInbox, agentPerms, stdoutQ, readerDone>>

\* KimiAdapter::set_model -> set_session_model, request id 3.
SetModel ==
    /\ pc = "ready"
    /\ StartRequest(pending, SetModelId, "session/set_model", "op_wait", "ready")
    /\ UNCHANGED <<hsKind, attempt, supports_load, stdin_tx, next_request_id,
                   pending_permission, writerAlive, agentAlive, agentInbox,
                   agentPerms, stdoutQ, readerDone>>

\* KimiAdapter::cancel -> cancel_session with the next counter value.
Cancel ==
    /\ pc = "ready"
    /\ StartRequest(pending, next_id, "session/cancel", "op_wait", "ready")
    /\ next_request_id' = next_request_id + 1
    /\ UNCHANGED <<hsKind, attempt, supports_load, stdin_tx, pending_permission,
                   writerAlive, agentAlive, agentInbox, agentPerms, stdoutQ,
                   readerDone>>

\* set_session_model / cancel_session return to their caller.
OperationReturns(outcome) ==
    /\ pc = "op_wait"
    /\ outcome \in AwaitOutcomes
    /\ pending' = AfterAwait(outcome)
    /\ lastReturn' = Returned(outcome)
    /\ pc' = "ready"
    /\ await' = NoAwait
    /\ UNCHANGED <<hsKind, attempt, supports_load, stdin_tx, next_request_id,
                   pending_permission, reqCount, stdinQ, writerAlive, agentAlive,
                   agentInbox, agentPerms, stdoutQ, readerDone, sent>>

\* KimiAdapter::terminate, first half: the graceful cancel, sent when
\* stdin_tx and acp_session_id are set.
Terminate ==
    /\ pc = "ready"
    /\ StartRequest(pending, next_id, "session/cancel", "term_wait", "term_kill")
    /\ next_request_id' = next_request_id + 1
    /\ UNCHANGED <<hsKind, attempt, supports_load, stdin_tx, pending_permission,
                   writerAlive, agentAlive, agentInbox, agentPerms, stdoutQ,
                   readerDone>>

\* terminate's cancel returns (its error is only logged).
TerminateCancelReturns(outcome) ==
    /\ pc = "term_wait"
    /\ outcome \in AwaitOutcomes
    /\ pending' = AfterAwait(outcome)
    /\ lastReturn' = Returned(outcome)
    /\ pc' = "term_kill"
    /\ await' = NoAwait
    /\ UNCHANGED <<hsKind, attempt, supports_load, stdin_tx, next_request_id,
                   pending_permission, reqCount, stdinQ, writerAlive, agentAlive,
                   agentInbox, agentPerms, stdoutQ, readerDone, sent>>

\* terminate, second half: stdin_tx = None, the child is killed, the fields
\* are reset and the pending table is cleared.  On an adapter that is
\* already terminated the same statements run again and change nothing.
TerminateKill ==
    /\ pc \in {"term_kill", "terminated"}
    /\ stdin_tx' = FALSE
    /\ agentAlive' = FALSE
    /\ agentInbox' = {}
    /\ pending' = {}
    /\ pc' = "terminated"
    /\ lastReturn' = [rq |-> 0, outcome |-> "Ok", got |-> 0]
    /\ UNCHANGED <<hsKind, attempt, supports_load, next_request_id,
                   pending_permission, await, reqCount, stdinQ, writerAlive,
                   agentPerms, stdoutQ, readerDone, sent>>

\* ---- the stdin writer, the agent and the readers --------------------------

\* spawn_stdin_writer, one turn of its loop: the line is written to the
\* child's stdin; a write error (the child is gone) ends the task and drops
\* the receiver with whatever is queued.
WriterWrite ==
    /\ writerAlive
    /\ stdinQ # <<>>
    /\ IF agentAlive
       THEN /\ stdinQ' = Tail(stdinQ)
            /\ agentInbox' = IF Head(stdinQ).kind = "request"
                             THEN agentInbox \cup {Head(stdinQ)} ELSE agentInbox
            /\ UNCHANGED writerAlive
       ELSE /\ stdinQ' = <<>>
            /\ writerAlive' = FALSE
            /\ UNCHANGED agentInbox
    /\ UNCHANGED <<pc, hsKind, attempt, supports_load, stdin_tx, pending,
                   next_request_id, pending_permission, await, reqCount, agentAlive,
                   agentPerms, stdoutQ, readerDone, sent, lastReturn>>

\* The writer's loop ends when every sender of the channel is dropped: the
\* handshake failed (its local stdin_tx goes out of scope) or terminate set
\* stdin_tx to None.
WriterEnds ==
    /\ writerAlive
    /\ stdinQ = <<>>
    /\ pc \in {"failed", "terminated"}
    /\ writerAlive' = FALSE
    /\ UNCHANGED <<pc, hsKind, attempt, supports_load, stdin_tx, pending,
                   next_request_id, pending_permission, await, reqCount, stdinQ,
                   agentAlive, agentInbox, agentPerms, stdoutQ, readerDone, sent,
                   lastReturn>>

\* What the agent may answer to a request.
ReplyKinds(m) ==
    IF m.method \in {"initialize", "session/new", "session/resume"}
    THEN {"result", "error", "malformed"} ELSE {"result", "error"}

\* The agent answers one of the requests it has read, in any order and at
\* any time; an initialize result states whether session/load is supported.
AgentReply(m, res, load) ==
    /\ agentAlive
    /\ m \in agentInbox
    /\ res \in ReplyKinds(m)
    /\ load \in IF m.method = "initialize" /\ res = "result" /\ hsKind = "resume"
                THEN BOOLEAN ELSE {FALSE}
    /\ agentInbox' = agentInbox \ {m}
    /\ stdoutQ' = Append(stdoutQ, [kind |-> "response", id |-> m.id, rq |-> m.rq,
                                   res |-> res, load |-> load])
    /\ UNCHANGED <<pc, hsKind, attempt, supports_load, stdin_tx, pending,
                   next_request_id, pending_permission, await, reqCount, stdinQ,
                   writerAlive, agentAlive, agentPerms, sent, readerDone,
                   lastReturn>>

\* During a prompt turn the agent asks for a permission
\* (session/request_permission with its own JSON-RPC id).
AgentRequestsPermission ==
    /\ agentAlive
    /\ agentPerms < MaxPerms
    /\ \E m \in agentInbox : m.method = "session/prompt"
    /\ agentPerms' = agentPerms + 1
    /\ stdoutQ' = Append(stdoutQ, [kind |-> "permission", id |-> agentPerms + 1,
                                   rq |-> 0, res |-> "none", load |-> FALSE])
    /\ UNCHANGED <<pc, hsKind, attempt, supports_load, stdin_tx, pending,
                   next_request_id, pending_permission, await, reqCount, stdinQ,
                   writerAlive, agentAlive, agentInbox, sent, readerDone,
                   lastReturn>>

\* The agent process exits on its own.
AgentExits ==
    /\ agentAlive
    /\ agentAlive' = FALSE
    /\ agentInbox' = {}
    /\ UNCHANGED <<pc, hsKind, attempt, supports_load, stdin_tx, pending,
                   next_request_id, pending_permission, await, reqCount, stdinQ,
                   writerAlive, agentPerms, stdoutQ, readerDone, sent, lastReturn>>

\* The response is handed to the waiting receiver of the slot that was
\* removed, if that receiver is still awaited.
Delivered(a, P, line) ==
    IF a.chan = "open" /\ [id |-> a.id, rq |-> a.rq] \in P /\ a.id = line.id
    THEN [a EXCEPT !.chan = "value", !.got = line.rq, !.res = line.res,
                   !.load = line.load]
    ELSE a

\* spawn_stdout_reader, one line: a response is routed by its id alone
\* (pending.remove(&id), tx.send); a permission request is stored in
\* pending_permission, replacing what was there.
ReaderRead ==
    /\ ~readerDone
    /\ stdoutQ # <<>>
    /\ LET line == Head(stdoutQ) IN
          /\ stdoutQ' = Tail(stdoutQ)
          /\ IF line.kind = "response"
             THEN /\ pending' = PendingRemove(pending, line.id)
                  /\ await' = Delivered(await, pending, line)
                  /\ UNCHANGED pending_permission
             ELSE /\ pending_permission' = line.id
                  /\ UNCHANGED <<pending, await>>
    /\ UNCHANGED <<pc, hsKind, attempt, supports_load, stdin_tx, next_request_id,
                   reqCount, stdinQ, writerAlive, agentAlive, agentInbox,
                   agentPerms, readerDone, sent, lastReturn>>

\* spawn_stdout_reader at end-of-stream: the child is gone and every line
\* it wrote has been read; the pending table is cleared.
ReaderEof ==
    /\ ~readerDone
    /\ stdoutQ = <<>>
    /\ ~agentAlive
    /\ pc # "new"
    /\ readerDone' = TRUE
    /\ pending' = ClearedAtEof(pending)
    /\ await' = Dropped(await, pending', "stdout")
    /\ UNCHANGED <<pc, hsKind, attempt, supports_load, stdin_tx, next_request_id,
                   pending_permission, reqCount, stdinQ, writerAlive, agentAlive,
                   agentInbox, agentPerms, stdoutQ, sent, lastReturn>>

\* spawn_stderr_reader on a line containing "CLI exited with code": the
\* pending table is cleared.
StderrFatal ==
    /\ agentAlive
    /\ pending # {}
    /\ pending' = {}
    /\ await' = Dropped(await, pending', "stderr")
    /\ UNCHANGED <<pc, hsKind, attempt, supports_load, stdin_tx, next_request_id,
                   pending_permission, reqCount, stdinQ, writerAlive, agentAlive,
                   agentInbox, agentPerms, stdoutQ, readerDone, sent, lastReturn>>

\* ---- the SDK connection: ClaudeAdapter and run_command_loop -------------------

MaxCalls == 4     \* adapter calls made on one connection
MaxAsks == 2      \* permission requests the agent makes

CallIds == 1 .. MaxCalls
AskIds == 1 .. MaxAsks

VARIABLES
    claude,              \* ClaudeAdapter: child, cmd_tx, acp_session_id, is_active
    childRunning,        \* the agent process is running
    call,                \* the adapter call in progress (the adapter is behind a Mutex)
    calls,               \* number of adapter calls made
    cmd_rx,              \* the command channel, oldest first
    perm_rx,             \* the channel of registered permission requests
    pending_perm,        \* run_command_loop's pending_perm
    loop,                \* where run_command_loop is
    tasks,               \* prompt tasks spawned by the loop
    toAgent,             \* what the connection has sent to the agent, in order
    asks,                \* per permission request of the agent: its state
    prompted,            \* interaction-prompt events emitted: the request, and the
                         \* number of adapter calls made before the event
    replies,             \* replies given to commands
    current_message_id,  \* the shared logical message id
    chunks,              \* completion chunks put on the stream
    callReturn           \* what the most recently returned adapter call returned

loopVars == <<claude, childRunning, call, calls, cmd_rx, perm_rx, pending_perm, loop,
              tasks, toAgent, asks, prompted, replies, current_message_id, chunks,
              callReturn>>

\* ClaudeAdapter::new
NewClaude == [child |-> FALSE, cmd_tx |-> FALSE, acp_session_id |-> None,
              is_active |-> FALSE]

NoCall == [op |-> "none", id |-> 0, pc |-> "none"]

NoCallReturn == [op |-> "none", id |-> 0, res |-> "none"]

CallReturn(op, id, res) == [op |-> op, id |-> id, res |-> res]

InitLoop ==
    /\ claude = NewClaude
    /\ childRunning = FALSE
    /\ call = NoCall
    /\ calls = 0
    /\ cmd_rx = <<>>
    /\ perm_rx = <<>>
    /\ pending_perm = None
    /\ loop = "none"
    /\ tasks = {}
    /\ toAgent = <<>>
    /\ asks = [a \in AskIds |-> "none"]
    /\ prompted = {}
    /\ replies = {}
    /\ current_message_id = 0
    /\ chunks = <<>>
    /\ callReturn = NoCallReturn

\* An AcpCommand made by adapter call id.
Command(kind, id) == [kind |-> kind, id |-> id]

\* The reply the loop gave to a command.
Reply(kind, id, res) == [kind |-> kind, id |-> id, res |-> res]

ReplyTo(kind, id) == { r \in replies : r.kind = kind /\ r.id = id }

\* The receiving end of the command channel exists: the loop has not ended.
LoopAlive == loop \notin {"none", "done"}

\* A command's reply sender was dropped without a reply: the loop ended
\* with the command unprocessed.
ReplyClosed(kind, id) ==
    /\ ReplyTo(kind, id) = {}
    /\ ~LoopAlive

\* start_session / resume_session: spawn the process and the connection and
\* wait for the handshake; on failure the adapter keeps its initial fields.
ClaudeStart(ok) ==
    /\ call = NoCall
    /\ loop = "none"
    /\ calls < MaxCalls
    /\ calls' = calls + 1
    /\ IF ok
       THEN /\ claude' = [child |-> TRUE, cmd_tx |-> TRUE,
                          acp_session_id |-> AgentSessionId, is_active |-> TRUE]
            /\ childRunning' = TRUE
            /\ loop' = "select"
            /\ callReturn' = CallReturn("start_session", calls + 1, "Ok")
       ELSE /\ loop' = "done"
            /\ childRunning' \in BOOLEAN
            /\ callReturn' = CallReturn("start_session", calls + 1, "Err")
            /\ UNCHANGED claude
    /\ UNCHANGED <<call, cmd_rx, perm_rx, pending_perm, tasks, toAgent, asks, prompted,
                   replies, current_message_id, chunks>>

\* cmd_tx.send(cmd).await: the command is queued unless the receiver is gone.
Enqueued(q, cmd) == IF LoopAlive THEN Append(q, cmd) ELSE q

\* send_message: no channel, no session id, or the PermissionResponse
\* command is sent first and its reply awaited.
ClaudeSendMessage ==
    /\ call = NoCall
    /\ calls < MaxCalls
    /\ calls' = calls + 1
    /\ IF ~claude.cmd_tx \/ claude.acp_session_id = None \/ ~LoopAlive
       THEN /\ callReturn' = CallReturn("send_message", calls + 1, "Err")
            /\ UNCHANGED <<call, cmd_rx>>
       ELSE /\ cmd_rx' = Append(cmd_rx, Command("PermissionResponse", calls + 1))
            /\ call' = [op |-> "send_message", id |-> calls + 1, pc |-> "permission"]
            /\ UNCHANGED callReturn
    /\ UNCHANGED <<claude, childRunning, perm_rx, pending_perm, loop, tasks, toAgent,
                   asks, prompted, replies, current_message_id, chunks>>

\* The reply to the PermissionResponse command: Ok ends the call; Err makes
\* it send the text as a Prompt command, whose reply it does not wait for.
ClaudeSendMessageRouted ==
    /\ call.op = "send_message"
    /\ call.pc = "permission"
    /\ \/ \E r \in ReplyTo("PermissionResponse", call.id) :
             IF r.res = "Ok"
             THEN /\ callReturn' = CallReturn("send_message", call.id, "Ok")
                  /\ UNCHANGED cmd_rx
             ELSE IF LoopAlive
             THEN /\ cmd_rx' = Append(cmd_rx, Command("Prompt", call.id))
                  /\ callReturn' = CallReturn("send_message", call.id, "Ok")
             ELSE /\ callReturn' = CallReturn("send_message", call.id, "Err")
                  /\ UNCHANGED cmd_rx
       \/ /\ ReplyClosed("PermissionResponse", call.id)
          /\ callReturn' = CallReturn("send_message", call.id, "Err")
          /\ UNCHANGED cmd_rx
    /\ call' = NoCall
    /\ UNCHANGED <<claude, childRunning, calls, perm_rx, pending_perm, loop, tasks,
                   toAgent, asks, prompted, replies, current_message_id, chunks>>

\* set_model and cancel: the command is sent and its reply awaited.
AwaitedOps == {"set_model", "cancel"}

CommandOf(op) == IF op = "set_model" THEN "SetModel" ELSE "Cancel"

ClaudeCommand(op) ==
    /\ call = NoCall
    /\ calls < MaxCalls
    /\ calls' = calls + 1
    /\ IF ~claude.cmd_tx \/ claude.acp_session_id = None \/ ~LoopAlive
       THEN /\ callReturn' = CallReturn(op, calls + 1, "Err")
            /\ UNCHANGED <<call, cmd_rx>>
       ELSE /\ cmd_rx' = Append(cmd_rx, Command(CommandOf(op), calls + 1))
            /\ call' = [op |-> op, id |-> calls + 1, pc |-> "reply"]
            /\ UNCHANGED callReturn
    /\ UNCHANGED <<claude, childRunning, perm_rx, pending_perm, loop, tasks, toAgent,
                   asks, prompted, replies, current_message_id, chunks>>

ClaudeCommandReturns ==
    /\ call.op \in AwaitedOps
    /\ call.pc = "reply"
    /\ \/ \E r \in ReplyTo(CommandOf(call.op), call.id) :
             callReturn' = CallReturn(call.op, call.id, r.res)
       \/ /\ ReplyClosed(CommandOf(call.op), call.id)
          /\ callReturn' = CallReturn(call.op, call.id, "Err")
    /\ call' = NoCall
    /\ UNCHANGED <<claude, childRunning, calls, cmd_rx, perm_rx, pending_perm, loop,
                   tasks, toAgent, asks, prompted, replies, current_message_id, chunks>>

\* Variant of terminate that keeps the protocol session id.
ClaudeTerminatedKeepsId(c) ==
    [c EXCEPT !.child = FALSE, !.cmd_tx = FALSE, !.is_active = FALSE]

\* The fields of the adapter after terminate.
ClaudeTerminated(c) ==
    [child |-> FALSE, cmd_tx |-> FALSE, acp_session_id |-> None, is_active |-> FALSE]

\* terminate: Shutdown is sent on the command channel if there is one, the
\* child is killed if there is one, the fields are reset; always Ok.
ClaudeTerminate ==
    /\ call = NoCall
    /\ calls < MaxCalls
    /\ calls' = calls + 1
    /\ cmd_rx' = IF claude.cmd_tx
                 THEN Enqueued(cmd_rx, Command("Shutdown", calls + 1)) ELSE cmd_rx
    /\ childRunning' = IF claude.child THEN FALSE ELSE childRunning
    /\ claude' = ClaudeTerminated(claude)
    /\ callReturn' = CallReturn("terminate", calls + 1, "Ok")
    /\ UNCHANGED <<call, perm_rx, pending_perm, loop, tasks, toAgent, asks, prompted,
                   replies, current_message_id, chunks>>

\* Variant in which the loop waits for the response of a prompt.
LoopAfterBlocking(kind) ==
    IF kind = "Prompt" THEN "prompt"
    ELSE IF kind = "SetModel" THEN "set_model"
    ELSE IF kind = "Shutdown" THEN "done"
    ELSE "select"

\* Where the loop is after it has taken a command of this kind: a prompt is
\* spawned as a task, set_session_model is awaited in the loop, Shutdown
\* breaks the loop.
LoopAfter(kind) ==
    IF kind = "SetModel" THEN "set_model"
    ELSE IF kind = "Shutdown" THEN "done"
    ELSE "select"

\* Variant that answers a PermissionResponse without a pending request Ok.
PermissionReplyAlwaysOk(pp) == "Ok"

\* The reply to a PermissionResponse command.
PermissionReply(pp) == IF pp # None THEN "Ok" ELSE "Err"

\* One message sent to the agent.
Msg(kind, ref) == [kind |-> kind, ref |-> ref]

\* "cmd = cmd_rx.recv()": the loop takes the oldest command.
LoopCommand ==
    /\ loop = "select"
    /\ cmd_rx # <<>>
    /\ LET cmd == Head(cmd_rx) IN
       /\ cmd_rx' = Tail(cmd_rx)
       /\ loop' = LoopAfter(cmd.kind)
       /\ CASE cmd.kind = "Prompt" ->
                 /\ current_message_id' = current_message_id + 1
                 /\ tasks' = tasks \cup {[id |-> cmd.id, pc |-> "spawned"]}
                 /\ UNCHANGED <<toAgent, pending_perm, asks, replies>>
            [] cmd.kind = "Cancel" ->
                 /\ toAgent' = IF childRunning
                               THEN Append(toAgent, Msg("session/cancel", cmd.id))
                               ELSE toAgent
                 /\ replies' = replies \cup
                      {Reply("Cancel", cmd.id, IF childRunning THEN "Ok" ELSE "Err")}
                 /\ UNCHANGED <<tasks, pending_perm, asks, current_message_id>>
            [] cmd.kind = "SetModel" ->
                 /\ toAgent' = IF childRunning
                               THEN Append(toAgent, Msg("session/set_model", cmd.id))
                               ELSE toAgent
                 /\ UNCHANGED <<tasks, pending_perm, asks, replies, current_message_id>>
            [] cmd.kind = "PermissionResponse" ->
                 /\ replies' = replies \cup
                      {Reply("PermissionResponse", cmd.id, PermissionReply(pending_perm))}
                 /\ IF pending_perm # None
                    THEN /\ toAgent' = Append(toAgent, [kind |-> "permission_reply",
                                                       ref |-> pending_perm,
                                                       option |-> cmd.id])
                         /\ asks' = [asks EXCEPT ![pending_perm] = "answered"]
                         /\ pending_perm' = None
                    ELSE UNCHANGED <<toAgent, asks, pending_perm>>
                 /\ UNCHANGED <<tasks, current_message_id>>
            [] cmd.kind = "Shutdown" ->
                 \* the connection and its tasks are dropped with the loop
                 /\ tasks' = {}
                 /\ UNCHANGED <<toAgent, pending_perm, asks, replies, current_message_id>>
    /\ UNCHANGED <<claude, childRunning, call, calls, perm_rx, prompted, chunks,
                   callReturn>>

\* "perm = perm_rx.recv()": the registered request becomes the pending one;
\* a request that was pending is dropped with its reply sender.
LoopPermission ==
    /\ loop = "select"
    /\ perm_rx # <<>>
    /\ perm_rx' = Tail(perm_rx)
    /\ pending_perm' = Head(perm_rx)
    /\ asks' = IF pending_perm # None
               THEN [asks EXCEPT ![pending_perm] = "dropped"] ELSE asks
    /\ UNCHANGED <<claude, childRunning, call, calls, cmd_rx, loop, tasks, toAgent,
                   prompted, replies, current_message_id, chunks, callReturn>>

\* conn.set_session_model(..).await returns in the loop: the agent's answer,
\* or an error (also when the agent is gone).
LoopSetModelReturns(ok) ==
    /\ loop = "set_model"
    /\ ok => childRunning
    /\ loop' = "select"
    /\ call.op = "set_model"
    /\ replies' = replies \cup {Reply("SetModel", call.id, IF ok THEN "Ok" ELSE "Err")}
    /\ UNCHANGED <<claude, childRunning, call, calls, cmd_rx, perm_rx, pending_perm,
                   tasks, toAgent, asks, prompted, current_message_id, chunks,
                   callReturn>>

\* The spawned prompt task is polled: conn.prompt sends session/prompt.
PromptSend(t) ==
    /\ t \in tasks
    /\ t.pc = "spawned"
    /\ tasks' = (tasks \ {t}) \cup {[t EXCEPT !.pc = "sent"]}
    /\ toAgent' = IF childRunning THEN Append(toAgent, Msg("session/prompt", t.id))
                  ELSE toAgent
    /\ UNCHANGED <<claude, childRunning, call, calls, cmd_rx, perm_rx, pending_perm,
                   loop, asks, prompted, replies, current_message_id, chunks,
                   callReturn>>

\* The completion chunk of a prompt: it carries the shared message id as it
\* is when the response arrives.
Completion(t, mid) == [id |-> t.id, message_id |-> mid]

\* conn.prompt(..).await returns in the task: a response (ok) gives the
\* completion chunk and the reply Ok, an error only the reply Err.
PromptReturns(t, ok) ==
    /\ t \in tasks
    /\ t.pc = "sent"
    /\ ok => childRunning
    /\ tasks' = tasks \ {t}
    /\ chunks' = IF ok THEN Append(chunks, Completion(t, current_message_id)) ELSE chunks
    /\ replies' = replies \cup {Reply("Prompt", t.id, IF ok THEN "Ok" ELSE "Err")}
    /\ UNCHANGED <<claude, childRunning, call, calls, cmd_rx, perm_rx, pending_perm,
                   loop, toAgent, asks, prompted, current_message_id, callReturn>>

\* ForkClient::request_permission: the agent, working on a prompt, asks for
\* a permission; the interaction-prompt event is emitted and the request is
\* registered on perm_rx.
AgentAsks(a) ==
    /\ childRunning
    /\ LoopAlive
    /\ \E t \in tasks : t.pc = "sent"
    /\ asks[a] = "none"
    /\ \A b \in AskIds : b < a => asks[b] # "none"
    /\ asks' = [asks EXCEPT ![a] = "asked"]
    /\ prompted' = prompted \cup {[ask |-> a, calls |-> calls]}
    /\ perm_rx' = Append(perm_rx, a)
    /\ UNCHANGED <<claude, childRunning, call, calls, cmd_rx, pending_perm, loop, tasks,
                   toAgent, replies, current_message_id, chunks, callReturn>>

\* The agent process exits by itself.
AgentDies ==
    /\ childRunning
    /\ childRunning' = FALSE
    /\ UNCHANGED <<claude, call, calls, cmd_rx, perm_rx, pending_perm, loop, tasks,
                   toAgent, asks, prompted, replies, current_message_id, chunks,
                   callReturn>>

\* ---- WorktreeManager::merge_to_branch: the project repository ------------------

MaxCommits == 5        \* commits in the repository, the root commit included
MaxMerges == 2         \* merge_to_branch calls

Targets == {"main", "dev"}              \* local branches of the project
SessionBranch == "session"              \* forkestra/session-{session_id}
Branches == Targets \cup {SessionBranch}
Files == {"f", "g"}
RootCommit == 1

VARIABLES
    commits,        \* the object database: commit id -> [parents, tree]
    refs,           \* refs/heads: branch -> commit id
    head,           \* HEAD of the project repository: the branch it names
    wt,             \* index and working tree of the project repository
    merge_head,     \* MERGE_HEAD: 0, or the commit of a merge in progress
    mergeCalls,     \* merge_to_branch calls made
    mergeReturn     \* what the latest merge_to_branch returned

mergeVars == <<commits, refs, head, wt, merge_head, mergeCalls, mergeReturn>>

\* A tree gives each file the id of the commit that last wrote it.
RootTree == [f \in Files |-> RootCommit]

\* Index and working tree equal to a tree, nothing staged or edited.
Clean(tree) == [tree |-> tree, conflicts |-> FALSE, dirty |-> FALSE]

NoMergeReturn == [n |-> 0, target |-> "none", res |-> "none"]

\* A project with one commit; create_worktree made the session branch at the
\* base branch's commit.
InitMerge ==
    /\ commits = <<[parents |-> {}, tree |-> RootTree]>>
    /\ refs = [b \in Branches |-> RootCommit]
    /\ head = "main"
    /\ wt = Clean(RootTree)
    /\ merge_head = 0
    /\ mergeCalls = 0
    /\ mergeReturn = NoMergeReturn

RECURSIVE Ancestors(_)
\* The commits reachable from c through parents, c excluded.
Ancestors(c) ==
    LET ps == commits[c].parents IN
    ps \cup UNION { Ancestors(p) : p \in ps }

\* Graph::descendant_of, as merge_analysis uses it.
DescendantOf(c, a) == a \in Ancestors(c)

Max(S) == CHOOSE x \in S : \A y \in S : y <= x

\* The merge base of two commits.  The session branch only ever receives
\* commits, so its history is a chain and the latest common commit is the base.
MergeBase(o, t) == Max((Ancestors(o) \cup {o}) \cap (Ancestors(t) \cup {t}))

\* Three-way merge of one file.
ConflictIn(f, b, o, t) ==
    /\ commits[o].tree[f] # commits[t].tree[f]
    /\ commits[o].tree[f] # commits[b].tree[f]
    /\ commits[t].tree[f] # commits[b].tree[f]

Conflicting(o, t) == \E f \in Files : ConflictIn(f, MergeBase(o, t), o, t)

MergedTree(o, t) ==
    LET b == MergeBase(o, t) IN
    [f \in Files |-> IF commits[o].tree[f] = commits[b].tree[f]
                     THEN commits[t].tree[f] ELSE commits[o].tree[f]]

\* Variant of the analysis that never reports a fast-forward.
NeverFastForward(ours, theirs) == FALSE

\* merge_analysis(..).is_fast_forward(): HEAD's commit is an ancestor of theirs.
IsFastForward(ours, theirs) == DescendantOf(theirs, ours)

\* merge_analysis(..).is_normal(): the histories have diverged.
IsNormal(ours, theirs) ==
    /\ ours # theirs
    /\ ~DescendantOf(ours, theirs)

\* A commit is made on a branch and changes one file: by the agent in the
\* session's worktree, or by the user on the branch HEAD names.
Commit(b, f) ==
    /\ Len(commits) < MaxCommits
    /\ b = SessionBranch \/ (b = head /\ ~wt.conflicts /\ merge_head = 0)
    /\ LET id == Len(commits) + 1
           tree == [commits[refs[b]].tree EXCEPT ![f] = id]
       IN /\ commits' = Append(commits, [parents |-> {refs[b]}, tree |-> tree])
          /\ refs' = [refs EXCEPT ![b] = id]
          /\ wt' = IF b = head THEN Clean(tree) ELSE wt
    /\ UNCHANGED <<head, merge_head, mergeCalls, mergeReturn>>

\* The user checks out another branch in the project directory.
UserCheckout(b) ==
    /\ b \in Targets
    /\ b # head
    /\ ~wt.conflicts /\ ~wt.dirty /\ merge_head = 0
    /\ head' = b
    /\ wt' = Clean(commits[refs[b]].tree)
    /\ UNCHANGED <<commits, refs, merge_head, mergeCalls, mergeReturn>>

\* The user edits a file in the project directory without committing.
UserEdit ==
    /\ ~wt.dirty /\ ~wt.conflicts
    /\ wt' = [wt EXCEPT !.dirty = TRUE]
    /\ UNCHANGED <<commits, refs, head, merge_head, mergeCalls, mergeReturn>>

\* merge_to_branch(project_path, session_id, target): HEAD is set to the
\* target and checked out with force; a fast-forward moves the target ref and
\* checks out again; a normal merge runs repo.merge, which writes the result
\* and MERGE_HEAD, then writes the index as a tree (an index with conflicts
\* cannot be written, and the error is returned from there), commits with
\* both parents on HEAD and cleans up the merge state; otherwise nothing more.
MergeToBranch(target) ==
    /\ mergeCalls < MaxMerges
    /\ mergeCalls' = mergeCalls + 1
    /\ head' = target
    /\ LET ours == refs[target]
           theirs == refs[SessionBranch]
           ret(res) == [n |-> mergeCalls + 1, target |-> target, res |-> res]
       IN IF IsFastForward(ours, theirs)
          THEN /\ refs' = [refs EXCEPT ![target] = theirs]
               /\ wt' = Clean(commits[theirs].tree)
               /\ mergeReturn' = ret("Ok")
               /\ UNCHANGED <<commits, merge_head>>
          ELSE IF IsNormal(ours, theirs)
          THEN IF Conflicting(ours, theirs)
               THEN /\ wt' = [tree |-> MergedTree(ours, theirs),
                              conflicts |-> TRUE, dirty |-> FALSE]
                    /\ merge_head' = theirs
                    /\ mergeReturn' = ret("Err")
                    /\ UNCHANGED <<commits, refs>>
               ELSE /\ Len(commits) < MaxCommits
                    /\ commits' = Append(commits, [parents |-> {ours, theirs},
                                                   tree |-> MergedTree(ours, theirs)])
                    /\ refs' = [refs EXCEPT ![target] = Len(commits) + 1]
                    /\ wt' = Clean(MergedTree(ours, theirs))
                    /\ merge_head' = 0
                    /\ mergeReturn' = ret("Ok")
          ELSE /\ wt' = Clean(commits[ours].tree)
               /\ mergeReturn' = ret("Ok")
               /\ UNCHANGED <<commits, refs, merge_head>>

\* ---- Database::save_session / load_sessions: one row and back -------------------

MaxRows == 2           \* session ids in the sessions table

RowIds == 1 .. MaxRows
Statuses == {"Creating", "Active", "Paused", "Terminated", "Error"}
Providers == {"Claude", "Kimi"}
Instants == [secs : {0, 1}, nanos : {0, 500}]      \* DateTime<Utc>
Lists == {<<>>, <<"x">>}                \* available_models, available_commands

VARIABLES
    mem,            \* the Session handed to save_session
    table,          \* the sessions table: id -> row, or Absent
    loaded,         \* the Vec<Session> load_sessions returned, as id -> Session
    storePc         \* "new", "saved", "loaded"

storeVars == <<mem, table, loaded, storePc>>

\* The sessions the Session Manager can hold.
StoreSessions ==
    [id : RowIds, name : {"a"}, provider : Providers, status : Statuses,
     worktree_path : {"w"}, branch_name : {"b"}, project_path : {"p"},
     is_local : BOOLEAN, created_at : Instants,
     acp_session_id : {None, AgentSessionId}, model : {None} \cup ModelIds,
     available_models : Lists, available_commands : Lists]

provider_type_to_str(p) == IF p = "Kimi" THEN "kimi" ELSE "claude"

str_to_provider_type(s) == IF s = "kimi" THEN "Kimi" ELSE "Claude"

session_status_to_str(s) ==
    CASE s = "Creating" -> "creating"
      [] s = "Active" -> "active"
      [] s = "Paused" -> "paused"
      [] s = "Terminated" -> "terminated"
      [] s = "Error" -> "error"

\* Variant without the arm for "paused".
str_to_session_status_unpaused(s) ==
    CASE s = "creating" -> "Creating"
      [] s = "active" -> "Active"
      [] s = "error" -> "Error"
      [] OTHER -> "Terminated"

str_to_session_status(s) ==
    CASE s = "creating" -> "Creating"
      [] s = "active" -> "Active"
      [] s = "paused" -> "Paused"
      [] s = "error" -> "Error"
      [] OTHER -> "Terminated"

\* created_at.to_rfc3339(): seconds, the fraction as far as it is not zero,
\* and the offset of Utc.
to_rfc3339(t) == [secs |-> t.secs, frac |-> t.nanos, offset |-> 0]

\* parse_from_rfc3339(..).with_timezone(&Utc)
parse_from_rfc3339(r) == [secs |-> r.secs - r.offset, nanos |-> r.frac]

\* The column values save_session binds.
RowOf(s) ==
    [id |-> s.id, name |-> s.name,
     provider |-> provider_type_to_str(s.provider),
     status |-> session_status_to_str(s.status),
     worktree_path |-> s.worktree_path, branch_name |-> s.branch_name,
     project_path |-> s.project_path,
     is_local |-> IF s.is_local THEN 1 ELSE 0,
     created_at |-> to_rfc3339(s.created_at),
     acp_session_id |-> s.acp_session_id, model |-> s.model]

\* What load_sessions reloads of available_commands.
LoadedCommands == <<>>

\* The Session load_sessions builds from a row.
SessionOf(r) ==
    [id |-> r.id, name |-> r.name,
     provider |-> str_to_provider_type(r.provider),
     status |-> str_to_session_status(r.status),
     worktree_path |-> r.worktree_path, branch_name |-> r.branch_name,
     project_path |-> r.project_path,
     is_local |-> r.is_local # 0,
     created_at |-> parse_from_rfc3339(r.created_at),
     acp_session_id |-> r.acp_session_id, model |-> r.model,
     available_models |-> <<>>, available_commands |-> LoadedCommands]

\* A session saved earlier under this id.
OlderSession(id) ==
    [id |-> id, name |-> "a", provider |-> "Claude", status |-> "Terminated",
     worktree_path |-> "w", branch_name |-> "b", project_path |-> "p",
     is_local |-> FALSE, created_at |-> [secs |-> 0, nanos |-> 0],
     acp_session_id |-> None, model |-> None,
     available_models |-> <<>>, available_commands |-> <<>>]

NotLoaded == [id \in RowIds |-> Absent]

\* No call made yet: nothing is held, the table is empty.
InitStoreIdle ==
    /\ mem = OlderSession(1)
    /\ table = [id \in RowIds |-> Absent]
    /\ loaded = NotLoaded
    /\ storePc = "new"

\* Any session is about to be saved into a table that may hold older rows.
InitStore ==
    /\ mem \in StoreSessions
    /\ table \in [RowIds -> {Absent} \cup { RowOf(OlderSession(id)) : id \in RowIds }]
    /\ \A id \in RowIds : table[id] # Absent => table[id].id = id
    /\ loaded = NotLoaded
    /\ storePc = "new"

\* save_session(&mem): INSERT OR REPLACE by id.
SaveSession ==
    /\ storePc = "new"
    /\ table' = [table EXCEPT ![mem.id] = RowOf(mem)]
    /\ storePc' = "saved"
    /\ UNCHANGED <<mem, loaded>>

\* load_sessions(): every row, converted.
LoadSessions ==
    /\ storePc = "saved"
    /\ loaded' = [id \in RowIds |->
                     IF table[id] = Absent THEN Absent ELSE SessionOf(table[id])]
    /\ storePc' = "loaded"
    /\ UNCHANGED <<mem, table>>

\* ---- the session-table lock and the adapter locks ------------------------------

MaxLockOps == 3        \* Session Manager calls whose lock steps are followed

LockSessions == {1, 2}                  \* two sessions with an attached adapter
LockOpIds == 1 .. MaxLockOps
LockKinds == {"get", "send_message", "terminate", "terminate_cleanup",
              "set_model", "rename"}

VARIABLES
    lockOps,        \* call id -> [kind, sid, pc, adapter], or NoLockOp
    tableReaders,   \* calls holding sessions.read()
    tableWriter,    \* the call holding sessions.write(), or 0
    adapterHolder,  \* session -> the call holding its adapter's Mutex, or 0
    present,        \* sessions in the table
    attached        \* sessions whose entry holds an adapter

lockVars == <<lockOps, tableReaders, tableWriter, adapterHolder, present, attached>>

NoLockOp == [kind |-> "none", sid |-> 0, pc |-> "none", adapter |-> FALSE]

InitLocks ==
    /\ lockOps = [i \in LockOpIds |-> NoLockOp]
    /\ tableReaders = {}
    /\ tableWriter = 0
    /\ adapterHolder = [s \in LockSessions |-> 0]
    /\ present = LockSessions
    /\ attached = LockSessions

\* A call is made: it stands before its first lock.
LockCall(i, kind, s) ==
    /\ lockOps[i] = NoLockOp
    /\ \A j \in LockOpIds : j < i => lockOps[j] # NoLockOp
    /\ lockOps' = [lockOps EXCEPT ![i] =
                      [kind |-> kind, sid |-> s, adapter |-> FALSE,
                       pc |-> IF kind \in {"terminate", "terminate_cleanup", "rename"}
                              THEN "write" ELSE "read"]]
    /\ UNCHANGED <<tableReaders, tableWriter, adapterHolder, present, attached>>

\* self.sessions.read().await is granted.
AcquireRead(i) ==
    /\ lockOps[i].pc \in {"read", "read_adapter"}
    /\ tableWriter = 0
    /\ tableReaders' = tableReaders \cup {i}
    /\ lockOps' = [lockOps EXCEPT ![i].pc =
                      IF @ = "read" THEN "reading" ELSE "reading_adapter"]
    /\ UNCHANGED <<tableWriter, adapterHolder, present, attached>>

\* self.sessions.write().await is granted.
AcquireWrite(i) ==
    /\ lockOps[i].pc \in {"write", "write_model", "write_remove"}
    /\ tableWriter = 0
    /\ tableReaders = {}
    /\ tableWriter' = i
    /\ lockOps' = [lockOps EXCEPT ![i].pc =
                      CASE @ = "write" -> "writing"
                        [] @ = "write_model" -> "writing_model"
                        [] @ = "write_remove" -> "writing_remove"]
    /\ UNCHANGED <<tableReaders, adapterHolder, present, attached>>

\* Variant in which the read guard lives until the end of the function.
TableLocksAfterAdapterClone(i) == <<tableReaders, tableWriter>>

\* The table locks after the block "let adapter = { let sessions =
\* self.sessions.read().await; ... }" of call i: the guard is dropped.
TableLocksAfterClone(i) == <<tableReaders \ {i}, tableWriter>>

\* The read-locked block ends.  get_session / list_sessions return; the
\* validation of set_session_model goes on to the second block; send_message
\* and set_session_model have cloned the adapter handle, or return an error
\* when there was none.
ReadBlockEnds(i) ==
    LET o == lockOps[i]
        has == o.sid \in present /\ o.sid \in attached
    IN
    /\ o.pc \in {"reading", "reading_adapter"}
    /\ IF o.kind = "get"
       THEN /\ lockOps' = [lockOps EXCEPT ![i].pc = "done"]
            /\ tableReaders' = tableReaders \ {i}
            /\ UNCHANGED tableWriter
       ELSE IF o.kind = "set_model" /\ o.pc = "reading"
       THEN /\ lockOps' = [lockOps EXCEPT ![i].pc =
                              IF o.sid \in present THEN "read_adapter" ELSE "done"]
            /\ tableReaders' = tableReaders \ {i}
            /\ UNCHANGED tableWriter
       ELSE /\ lockOps' = [lockOps EXCEPT ![i].pc = IF has THEN "lock_adapter" ELSE "done",
                                          ![i].adapter = has]
            /\ tableReaders' = TableLocksAfterClone(i)[1]
            /\ tableWriter' = TableLocksAfterClone(i)[2]
    /\ UNCHANGED <<adapterHolder, present, attached>>

\* The write-locked block ends and the guard is dropped.  terminate_session
\* has taken the adapter out of the entry; rename_session and the last block
\* of set_session_model have written the entry and the database; the removal
\* after a cleanup has removed the entry.
WriteBlockEnds(i) ==
    LET o == lockOps[i] IN
    /\ tableWriter = i
    /\ tableWriter' = 0
    /\ CASE o.pc = "writing" /\ o.kind = "rename" ->
              /\ lockOps' = [lockOps EXCEPT ![i].pc = "done"]
              /\ UNCHANGED <<present, attached>>
         [] o.pc = "writing" /\ o.kind # "rename" ->
              /\ lockOps' = [lockOps EXCEPT
                    ![i].adapter = o.sid \in present /\ o.sid \in attached,
                    ![i].pc = IF o.sid \notin present THEN "done"
                              ELSE IF o.sid \in attached THEN "lock_adapter"
                              ELSE IF o.kind = "terminate_cleanup" THEN "write_remove"
                              ELSE "done"]
              /\ attached' = attached \ {o.sid}
              /\ UNCHANGED present
         [] o.pc = "writing_model" ->
              /\ lockOps' = [lockOps EXCEPT ![i].pc = "done"]
              /\ UNCHANGED <<present, attached>>
         [] o.pc = "writing_remove" ->
              /\ lockOps' = [lockOps EXCEPT ![i].pc = "done"]
              /\ present' = present \ {o.sid}
              /\ UNCHANGED attached
    /\ UNCHANGED <<tableReaders, adapterHolder>>

\* adapter.lock().await is granted; the call then waits for the adapter's
\* send_message, set_model or terminate.
AcquireAdapter(i) ==
    /\ lockOps[i].pc = "lock_adapter"
    /\ adapterHolder[lockOps[i].sid] = 0
    /\ adapterHolder' = [adapterHolder EXCEPT ![lockOps[i].sid] = i]
    /\ lockOps' = [lockOps EXCEPT ![i].pc = "await_agent"]
    /\ UNCHANGED <<tableReaders, tableWriter, present, attached>>

\* The adapter call returns (the agent answered, or the call failed or timed
\* out) and the adapter guard is dropped; ok: whether it returned Ok.
AdapterReturns(i, ok) ==
    LET o == lockOps[i] IN
    /\ o.pc = "await_agent"
    /\ adapterHolder' = [adapterHolder EXCEPT ![o.sid] = 0]
    /\ lockOps' = [lockOps EXCEPT ![i].pc =
                      IF ~ok THEN "done"
                      ELSE IF o.kind = "set_model" THEN "write_model"
                      ELSE IF o.kind = "terminate_cleanup" THEN "write_remove"
                      ELSE "done"]
    /\ UNCHANGED <<tableReaders, tableWriter, present, attached>>

\* ---- KimiAdapter: prompts, the stdout reader and the stream --------------------

MaxPrompts == 2        \* session/prompt requests submitted by send_message
MaxUpdates == 2        \* session/update notifications the agent writes

PromptIds == 1 .. MaxPrompts

\* The stop reasons of a prompt response; "error" stands for a JSON-RPC
\* error response, which has no result.
StopReasons == {"end_turn", "cancelled", "error"}

VARIABLES
    kimi_message_id,  \* KimiAdapter.current_message_id: 0 is the id drawn by new()
    assigned,         \* per prompt submitted: the message id drawn at its submission
    prompt_lines,     \* session/prompt requests written and not yet read by the agent
    turns,            \* prompts the agent has read and not answered, oldest first
    updates,          \* session/update notifications written so far
    stdout_lines,     \* lines the agent wrote that the reader has not read
    read_lines,       \* lines the stdout reader has handled, in order
    agent_up,         \* the agent process runs
    reader_eof,       \* the stdout reader has seen end-of-stream
    stream_rx,        \* the stream channel (mpsc::channel::<StreamChunk>(100))
    emitted           \* "stream-chunk" events emitted by the forwarder, in order

streamVars == <<kimi_message_id, assigned, prompt_lines, turns, updates, stdout_lines,
                read_lines, agent_up, reader_eof, stream_rx, emitted>>

\* The adapter after a successful handshake.
InitStream ==
    /\ kimi_message_id = 0
    /\ assigned = <<>>
    /\ prompt_lines = <<>>
    /\ turns = <<>>
    /\ updates = 0
    /\ stdout_lines = <<>>
    /\ read_lines = <<>>
    /\ agent_up = TRUE
    /\ reader_eof = FALSE
    /\ stream_rx = <<>>
    /\ emitted = <<>>

\* A line of the agent's stdout; n numbers the lines in the order written.
StdoutLine(kind, p, stop) ==
    [kind |-> kind, prompt |-> p, stop |-> stop,
     n |-> Len(read_lines) + Len(stdout_lines) + 1]

\* A StreamChunk; `line` is the stdout line it was made from (0: end-of-stream).
StreamChunk(mid, complete, line) ==
    [message_id |-> mid, is_complete |-> complete,
     line |-> line.n, prompt |-> line.prompt]

EndOfStream == [kind |-> "eof", prompt |-> 0, stop |-> "none", n |-> 0]

\* KimiAdapter::send_message without a stored permission request: a new
\* message id is drawn, then the session/prompt request goes to the stdin
\* writer, which writes it while the child runs.
KimiSendPrompt ==
    /\ Len(assigned) < MaxPrompts
    /\ kimi_message_id' = kimi_message_id + 1
    /\ assigned' = Append(assigned, kimi_message_id')
    /\ prompt_lines' = IF agent_up THEN Append(prompt_lines, Len(assigned) + 1)
                       ELSE prompt_lines
    /\ UNCHANGED <<turns, updates, stdout_lines, read_lines, agent_up, reader_eof,
                   stream_rx, emitted>>

\* The agent reads a prompt; it works on its prompts in the order received.
AgentReadsPrompt ==
    /\ agent_up
    /\ prompt_lines # <<>>
    /\ turns' = Append(turns, Head(prompt_lines))
    /\ prompt_lines' = Tail(prompt_lines)
    /\ UNCHANGED <<kimi_message_id, assigned, updates, stdout_lines, read_lines,
                   agent_up, reader_eof, stream_rx, emitted>>

\* The agent writes a session/update (agent_message_chunk) of its turn.
AgentUpdate ==
    /\ agent_up
    /\ turns # <<>>
    /\ updates < MaxUpdates
    /\ updates' = updates + 1
    /\ stdout_lines' = Append(stdout_lines, StdoutLine("update", Head(turns), "none"))
    /\ UNCHANGED <<kimi_message_id, assigned, prompt_lines, turns, read_lines,
                   agent_up, reader_eof, stream_rx, emitted>>

\* The agent ends its turn: the response to the session/prompt request.
AgentResponds(stop) ==
    /\ agent_up
    /\ turns # <<>>
    /\ stdout_lines' = Append(stdout_lines, StdoutLine("response", Head(turns), stop))
    /\ turns' = Tail(turns)
    /\ UNCHANGED <<kimi_message_id, assigned, prompt_lines, updates, read_lines,
                   agent_up, reader_eof, stream_rx, emitted>>

\* The agent process exits; what it wrote stays readable.
AgentCloses ==
    /\ agent_up
    /\ agent_up' = FALSE
    /\ turns' = <<>>
    /\ prompt_lines' = <<>>
    /\ UNCHANGED <<kimi_message_id, assigned, updates, stdout_lines, read_lines,
                   reader_eof, stream_rx, emitted>>

\* Variant of the reader that marks no response as complete.
ChunksOfNoCompletion(line, mid) ==
    IF line.kind = "update" THEN << StreamChunk(mid, FALSE, line) >> ELSE << >>

\* spawn_stdout_reader, the chunks made from one line: a text chunk for an
\* agent_message_chunk update; for a response whose result parses as a
\* SessionPromptResult with stop_reason "end_turn" the completion chunk;
\* nothing otherwise.
ChunksOf(line, mid) ==
    IF line.kind = "update" THEN << StreamChunk(mid, FALSE, line) >>
    ELSE IF line.kind = "response" /\ line.stop = "end_turn"
    THEN << StreamChunk(mid, TRUE, line) >>
    ELSE << >>

\* spawn_stdout_reader, one line: its chunks are sent on the stream with the
\* current message id.
StdoutRead ==
    /\ ~reader_eof
    /\ stdout_lines # <<>>
    /\ read_lines' = Append(read_lines, Head(stdout_lines))
    /\ stdout_lines' = Tail(stdout_lines)
    /\ stream_rx' = stream_rx \o ChunksOf(Head(stdout_lines), kimi_message_id)
    /\ UNCHANGED <<kimi_message_id, assigned, prompt_lines, turns, updates, agent_up,
                   reader_eof, emitted>>

\* spawn_stdout_reader after its loop: "Send completion signal".
StdoutEof ==
    /\ ~reader_eof
    /\ stdout_lines = <<>>
    /\ ~agent_up
    /\ reader_eof' = TRUE
    /\ stream_rx' = Append(stream_rx, StreamChunk(kimi_message_id, TRUE, EndOfStream))
    /\ UNCHANGED <<kimi_message_id, assigned, prompt_lines, turns, updates,
                   stdout_lines, read_lines, agent_up, emitted>>

\* The stream forwarder of the Session Manager: rx.recv() and emit.
ForwardChunk ==
    /\ stream_rx # <<>>
    /\ emitted' = Append(emitted, Head(stream_rx))
    /\ stream_rx' = Tail(stream_rx)
    /\ UNCHANGED <<kimi_message_id, assigned, prompt_lines, turns, updates,
                   stdout_lines, read_lines, agent_up, reader_eof>>

\* ---- SessionManager::new: startup recovery ---------------------------------

MaxStored == 2         \* sessions in the store when the program starts

StoredIds == 1 .. MaxStored

VARIABLES
    startup         \* whether SessionManager::new has run, and the rows of
                    \* the store it started from

\* The state of `startup` in a running Session Manager.
Started == [done |-> TRUE, stored |-> <<>>]

\* Rows the program can have written for one session: a Creating or Error
\* row has no protocol session id and no model (create_session, failed
\* create handshake); an Active row has a protocol session id; a model is
\* only ever set on a session that has one.
WrittenRows ==
    { r \in [status : {"Creating", "Active", "Paused", "Terminated", "Error"},
             acp_session_id : {None, AgentSessionId}, name : Names,
             model : {None} \cup ModelIds, is_local : BOOLEAN] :
        /\ r.status \in {"Creating", "Error"} => r.acp_session_id = None
        /\ r.status = "Active" => r.acp_session_id # None
        /\ r.acp_session_id = None => r.model = None }

\* The program starts: the store holds what earlier runs left, nothing is
\* constructed yet.
InitStored ==
    /\ db \in [StoredIds -> {Absent} \cup WrittenRows]
    /\ startup = [done |-> FALSE, stored |-> db]
    /\ sessions = [s \in StoredIds |-> Absent]
    /\ generated = { s \in StoredIds : db[s] # Absent }
    /\ worktrees = { s \in StoredIds : db[s] # Absent /\ ~db[s].is_local }
    /\ branches = { s \in StoredIds : db[s] # Absent /\ ~db[s].is_local }
    /\ adapters = [p \in ProcIds |-> UnusedAdapter]
    /\ issued = 0
    /\ createTask = [s \in StoredIds |-> NoTask]
    /\ resumeCalls = {}
    /\ termCalls = {}
    /\ modelCalls = {}
    /\ adapterLocks = {}
    /\ lastResult = NoResult
    /\ InitSend
    /\ InitConn
    /\ InitLoop
    /\ InitMerge
    /\ InitStoreIdle
    /\ InitLocks
    /\ InitStream

\* SessionManager::new: every stored session is loaded; one that is Active
\* or Creating is set to Paused and update_session_status writes that to
\* the store; every entry is inserted with adapter None.
Construct ==
    /\ ~startup.done
    /\ startup' = [startup EXCEPT !.done = TRUE]
    /\ sessions' = [s \in DOMAIN db |->
                      IF db[s] = Absent THEN Absent
                      ELSE LoadedSession(RecoveredRow(db[s]))]
    /\ db' = [s \in DOMAIN db |->
                IF db[s] = Absent THEN Absent
                ELSE IF db[s].status \in {"Active", "Creating"}
                THEN update_session_status(db, s, RecoveredStatus(db[s].status))[s]
                ELSE db[s]]
    /\ UNCHANGED <<worktrees, branches, generated, adapters, issued, createTask,
                   resumeCalls, termCalls, modelCalls, adapterLocks, lastResult>>

\* ---- the specifications -----------------------------------------------------

vars == <<smVars, sendVars, connVars, startup, loopVars, mergeVars, storeVars,
          lockVars, streamVars>>

\* The Session Manager, with adapters abstracted to the outcome of their
\* handshake: the connection variables stay in their initial state.
Init ==
    /\ InitSM /\ InitSend /\ InitConn /\ InitLoop /\ InitMerge /\ InitStoreIdle /\ InitLocks
    /\ InitStream
    /\ startup = Started

Next ==
    \/ \E n \in CreateNames, local \in BOOLEAN, git \in GitOutcomes :
          /\ CreateSession(n, local, git)
          /\ UNCHANGED <<lockVars, streamVars, sendVars, connVars, startup, loopVars, mergeVars, storeVars>>
    \/ \E s \in SessionIds :
          /\ CreateSpawnProcess(s)
          /\ UNCHANGED <<lockVars, streamVars, sendVars, connVars, startup, loopVars, mergeVars, storeVars>>
    \/ \E s \in SessionIds, hm \in HandshakeModels :
          /\ CreateSucceeded(s, hm)
          /\ UNCHANGED <<lockVars, streamVars, sendVars, connVars, startup, loopVars, mergeVars, storeVars>>
    \/ \E s \in SessionIds :
          /\ CreateFailed(s)
          /\ UNCHANGED <<lockVars, streamVars, sendVars, connVars, startup, loopVars, mergeVars, storeVars>>
    \/ \E s \in SessionIds, cleanup \in BOOLEAN :
          /\ TerminateBegin(s, cleanup)
          /\ UNCHANGED <<lockVars, streamVars, sendVars, connVars, startup, loopVars, mergeVars, storeVars>>
    \/ \E t \in termCalls, rm \in RemoveOutcomes :
          /\ TerminateAdapter(t, rm)
          /\ UNCHANGED <<lockVars, streamVars, sendVars, connVars, startup, loopVars, mergeVars, storeVars>>
    \/ \E t \in termCalls :
          /\ TerminateRemove(t)
          /\ UNCHANGED <<lockVars, streamVars, sendVars, connVars, startup, loopVars, mergeVars, storeVars>>
    \/ \E s \in SessionIds, spawnOk \in BOOLEAN :
          /\ ResumeSession(s, spawnOk)
          /\ UNCHANGED <<lockVars, streamVars, sendVars, connVars, startup, loopVars, mergeVars, storeVars>>
    \/ \E r \in resumeCalls :
          /\ ResumeFailed(r)
          /\ UNCHANGED <<lockVars, streamVars, sendVars, connVars, startup, loopVars, mergeVars, storeVars>>
    \/ \E r \in resumeCalls, hm \in HandshakeModels :
          /\ ResumeSucceeded(r, hm)
          /\ UNCHANGED <<lockVars, streamVars, sendVars, connVars, startup, loopVars, mergeVars, storeVars>>
    \/ \E r \in resumeCalls :
          /\ ResumePersist(r)
          /\ UNCHANGED <<lockVars, streamVars, sendVars, connVars, startup, loopVars, mergeVars, storeVars>>
    \/ \E s \in SessionIds, n \in Names :
          /\ RenameSession(s, n)
          /\ UNCHANGED <<lockVars, streamVars, sendVars, connVars, startup, loopVars, mergeVars, storeVars>>
    \/ \E s \in SessionIds, m \in ModelIds :
          /\ SetModelValidate(s, m)
          /\ UNCHANGED <<lockVars, streamVars, sendVars, connVars, startup, loopVars, mergeVars, storeVars>>
    \/ \E c \in modelCalls :
          /\ SetModelGetAdapter(c)
          /\ UNCHANGED <<lockVars, streamVars, sendVars, connVars, startup, loopVars, mergeVars, storeVars>>
    \/ \E c \in modelCalls :
          /\ SetModelLock(c)
          /\ UNCHANGED <<lockVars, streamVars, sendVars, connVars, startup, loopVars, mergeVars, storeVars>>
    \/ \E c \in modelCalls, ok \in BOOLEAN :
          /\ SetModelReply(c, ok)
          /\ UNCHANGED <<lockVars, streamVars, sendVars, connVars, startup, loopVars, mergeVars, storeVars>>
    \/ \E c \in modelCalls :
          /\ SetModelApply(c)
          /\ UNCHANGED <<lockVars, streamVars, sendVars, connVars, startup, loopVars, mergeVars, storeVars>>
    \/ \E op \in SendOps, s \in SessionIds :
          /\ SessionSendMessage(op, s)
          /\ UNCHANGED <<lockVars, streamVars, connVars, startup, loopVars, mergeVars, storeVars>>
    \/ \E c \in sendCalls, open \in BOOLEAN :
          /\ SessionSendDeliver(c, open)
          /\ UNCHANGED <<lockVars, streamVars, connVars, startup, loopVars, mergeVars, storeVars>>

Spec == Init /\ [][Next]_vars

\* One adapter and its protocol connection, from construction on; the
\* session table is empty and stays so.
InitIdle ==
    /\ db = [s \in SessionIds |-> Absent]
    /\ sessions = [s \in SessionIds |-> Absent]
    /\ generated = {}
    /\ worktrees = {}
    /\ branches = {}
    /\ adapters = [p \in ProcIds |-> UnusedAdapter]
    /\ issued = 0
    /\ createTask = [s \in SessionIds |-> NoTask]
    /\ resumeCalls = {}
    /\ termCalls = {}
    /\ modelCalls = {}
    /\ adapterLocks = {}
    /\ lastResult = NoResult
    /\ InitSend
    /\ InitConn
    /\ InitLoop
    /\ InitMerge
    /\ InitStoreIdle
    /\ InitLocks
    /\ InitStream
    /\ startup = Started

NextConn ==
    \/ \E kind \in {"start", "resume"}, acp \in StoredAcpIds \cup {None} :
          /\ StartSession(kind, acp)
          /\ UNCHANGED <<lockVars, streamVars, smVars, sendVars, startup, loopVars, mergeVars, storeVars, message_id>>
    \/ \E outcome \in {"Ok", "RpcError", "Timeout", "Exited"} :
          /\ InitializeReturns(outcome)
          /\ UNCHANGED <<lockVars, streamVars, smVars, sendVars, startup, loopVars, mergeVars, storeVars, message_id, resume_acp_id>>
    \/ InitializeRetry /\ UNCHANGED <<lockVars, streamVars, smVars, sendVars, startup, loopVars, mergeVars, storeVars, message_id, resume_acp_id>>
    \/ SessionSetup /\ UNCHANGED <<lockVars, streamVars, smVars, sendVars, startup, loopVars, mergeVars, storeVars, message_id, resume_acp_id>>
    \/ \E outcome \in {"Ok", "RpcError", "Timeout", "Exited"} :
          /\ SetupReturns(outcome)
          /\ UNCHANGED <<lockVars, streamVars, smVars, sendVars, startup, loopVars, mergeVars, storeVars, message_id, resume_acp_id>>
    \/ \E outcome \in {"Ok", "RpcError", "Timeout", "Exited"} :
          /\ LoadReturns(outcome)
          /\ UNCHANGED <<lockVars, streamVars, smVars, sendVars, startup, loopVars, mergeVars, storeVars, message_id, resume_acp_id>>
    \/ LoadFallback /\ UNCHANGED <<lockVars, streamVars, smVars, sendVars, startup, loopVars, mergeVars, storeVars, message_id, resume_acp_id>>
    \/ \E m \in Messages :
          SendMessage(m)
          /\ UNCHANGED <<lockVars, streamVars, smVars, sendVars, startup, loopVars, mergeVars, storeVars,
                         resume_acp_id>>
    \/ SetModel /\ UNCHANGED <<lockVars, streamVars, smVars, sendVars, startup, loopVars, mergeVars, storeVars, message_id, resume_acp_id>>
    \/ Cancel /\ UNCHANGED <<lockVars, streamVars, smVars, sendVars, startup, loopVars, mergeVars, storeVars, message_id, resume_acp_id>>
    \/ \E outcome \in {"Ok", "RpcError", "Timeout", "Exited"} :
          /\ OperationReturns(outcome)
          /\ UNCHANGED <<lockVars, streamVars, smVars, sendVars, startup, loopVars, mergeVars, storeVars, message_id, resume_acp_id>>
    \/ Terminate /\ UNCHANGED <<lockVars, streamVars, smVars, sendVars, startup, loopVars, mergeVars, storeVars, message_id, resume_acp_id>>
    \/ \E outcome \in {"Ok", "RpcError", "Timeout", "Exited"} :
          /\ TerminateCancelReturns(outcome)
          /\ UNCHANGED <<lockVars, streamVars, smVars, sendVars, startup, loopVars, mergeVars, storeVars, message_id, resume_acp_id>>
    \/ TerminateKill /\ UNCHANGED <<lockVars, streamVars, smVars, sendVars, startup, loopVars, mergeVars, storeVars, message_id, resume_acp_id>>
    \/ WriterWrite /\ UNCHANGED <<lockVars, streamVars, smVars, sendVars, startup, loopVars, mergeVars, storeVars, message_id, resume_acp_id>>
    \/ WriterEnds /\ UNCHANGED <<lockVars, streamVars, smVars, sendVars, startup, loopVars, mergeVars, storeVars, message_id, resume_acp_id>>
    \/ \E m \in agentInbox, res \in {"result", "error", "malformed"}, load \in BOOLEAN :
          /\ AgentReply(m, res, load)
          /\ UNCHANGED <<lockVars, streamVars, smVars, sendVars, startup, loopVars, mergeVars, storeVars, message_id, resume_acp_id>>
    \/ AgentRequestsPermission /\ UNCHANGED <<lockVars, streamVars, smVars, sendVars, startup, loopVars, mergeVars, storeVars, message_id, resume_acp_id>>
    \/ AgentExits /\ UNCHANGED <<lockVars, streamVars, smVars, sendVars, startup, loopVars, mergeVars, storeVars, message_id, resume_acp_id>>
    \/ ReaderRead /\ UNCHANGED <<lockVars, streamVars, smVars, sendVars, startup, loopVars, mergeVars, storeVars, message_id, resume_acp_id>>
    \/ ReaderEof /\ UNCHANGED <<lockVars, streamVars, smVars, sendVars, startup, loopVars, mergeVars, storeVars, message_id, resume_acp_id>>
    \/ StderrFatal /\ UNCHANGED <<lockVars, streamVars, smVars, sendVars, startup, loopVars, mergeVars, storeVars, message_id, resume_acp_id>>

SpecConn == InitIdle /\ [][NextConn]_vars

\* One SDK connection with its adapter: the Session Manager and the stdio
\* connection stay in their initial state.
NextLoop ==
    \/ \E ok \in BOOLEAN :
          /\ ClaudeStart(ok)
          /\ UNCHANGED <<lockVars, streamVars, smVars, sendVars, connVars, startup, mergeVars, storeVars>>
    \/ /\ ClaudeSendMessage
       /\ UNCHANGED <<lockVars, streamVars, smVars, sendVars, connVars, startup, mergeVars, storeVars>>
    \/ /\ ClaudeSendMessageRouted
       /\ UNCHANGED <<lockVars, streamVars, smVars, sendVars, connVars, startup, mergeVars, storeVars>>
    \/ \E op \in AwaitedOps :
          /\ ClaudeCommand(op)
          /\ UNCHANGED <<lockVars, streamVars, smVars, sendVars, connVars, startup, mergeVars, storeVars>>
    \/ /\ ClaudeCommandReturns
       /\ UNCHANGED <<lockVars, streamVars, smVars, sendVars, connVars, startup, mergeVars, storeVars>>
    \/ /\ ClaudeTerminate
       /\ UNCHANGED <<lockVars, streamVars, smVars, sendVars, connVars, startup, mergeVars, storeVars>>
    \/ /\ LoopCommand
       /\ UNCHANGED <<lockVars, streamVars, smVars, sendVars, connVars, startup, mergeVars, storeVars>>
    \/ /\ LoopPermission
       /\ UNCHANGED <<lockVars, streamVars, smVars, sendVars, connVars, startup, mergeVars, storeVars>>
    \/ \E ok \in BOOLEAN :
          /\ LoopSetModelReturns(ok)
          /\ UNCHANGED <<lockVars, streamVars, smVars, sendVars, connVars, startup, mergeVars, storeVars>>
    \/ \E t \in tasks :
          /\ PromptSend(t)
          /\ UNCHANGED <<lockVars, streamVars, smVars, sendVars, connVars, startup, mergeVars, storeVars>>
    \/ \E t \in tasks, ok \in BOOLEAN :
          /\ PromptReturns(t, ok)
          /\ UNCHANGED <<lockVars, streamVars, smVars, sendVars, connVars, startup, mergeVars, storeVars>>
    \/ \E a \in AskIds :
          /\ AgentAsks(a)
          /\ UNCHANGED <<lockVars, streamVars, smVars, sendVars, connVars, startup, mergeVars, storeVars>>
    \/ /\ AgentDies
       /\ UNCHANGED <<lockVars, streamVars, smVars, sendVars, connVars, startup, mergeVars, storeVars>>

SpecLoop == InitIdle /\ [][NextLoop]_vars

\* The project repository with one session branch: commits by the agent and
\* the user, and merge_to_branch; everything else stays in its initial state.
NextMerge ==
    \/ \E b \in Branches, f \in Files :
          /\ Commit(b, f)
          /\ UNCHANGED <<lockVars, streamVars, smVars, sendVars, connVars, startup, loopVars, storeVars>>
    \/ \E b \in Targets :
          /\ UserCheckout(b)
          /\ UNCHANGED <<lockVars, streamVars, smVars, sendVars, connVars, startup, loopVars, storeVars>>
    \/ /\ UserEdit
       /\ UNCHANGED <<lockVars, streamVars, smVars, sendVars, connVars, startup, loopVars, storeVars>>
    \/ \E target \in Targets :
          /\ MergeToBranch(target)
          /\ UNCHANGED <<lockVars, streamVars, smVars, sendVars, connVars, startup, loopVars, storeVars>>

SpecMerge == InitIdle /\ [][NextMerge]_vars

\* One session saved and the table loaded again; everything else stays in
\* its initial state.
InitRoundTrip ==
    /\ db = [s \in SessionIds |-> Absent]
    /\ sessions = [s \in SessionIds |-> Absent]
    /\ generated = {}
    /\ worktrees = {}
    /\ branches = {}
    /\ adapters = [p \in ProcIds |-> UnusedAdapter]
    /\ issued = 0
    /\ createTask = [s \in SessionIds |-> NoTask]
    /\ resumeCalls = {}
    /\ termCalls = {}
    /\ modelCalls = {}
    /\ adapterLocks = {}
    /\ lastResult = NoResult
    /\ InitSend
    /\ InitConn
    /\ InitLoop
    /\ InitMerge
    /\ InitStore
    /\ InitLocks
    /\ InitStream
    /\ startup = Started

NextStore ==
    \/ /\ SaveSession
       /\ UNCHANGED <<lockVars, streamVars, smVars, sendVars, connVars, startup, loopVars, mergeVars>>
    \/ /\ LoadSessions
       /\ UNCHANGED <<lockVars, streamVars, smVars, sendVars, connVars, startup, loopVars, mergeVars>>

SpecStore == InitRoundTrip /\ [][NextStore]_vars

\* Calls of the Session Manager on two sessions, followed lock by lock;
\* everything else stays in its initial state.
NextLocks ==
    \/ \E i \in LockOpIds, kind \in LockKinds, s \in LockSessions :
          /\ LockCall(i, kind, s)
          /\ UNCHANGED <<smVars, sendVars, connVars, startup, loopVars, mergeVars, storeVars,
                       streamVars>>
    \/ \E i \in LockOpIds :
          /\ AcquireRead(i)
          /\ UNCHANGED <<smVars, sendVars, connVars, startup, loopVars, mergeVars, storeVars,
                       streamVars>>
    \/ \E i \in LockOpIds :
          /\ AcquireWrite(i)
          /\ UNCHANGED <<smVars, sendVars, connVars, startup, loopVars, mergeVars, storeVars,
                       streamVars>>
    \/ \E i \in LockOpIds :
          /\ ReadBlockEnds(i)
          /\ UNCHANGED <<smVars, sendVars, connVars, startup, loopVars, mergeVars, storeVars,
                       streamVars>>
    \/ \E i \in LockOpIds :
          /\ WriteBlockEnds(i)
          /\ UNCHANGED <<smVars, sendVars, connVars, startup, loopVars, mergeVars, storeVars,
                       streamVars>>
    \/ \E i \in LockOpIds :
          /\ AcquireAdapter(i)
          /\ UNCHANGED <<smVars, sendVars, connVars, startup, loopVars, mergeVars, storeVars,
                       streamVars>>
    \/ \E i \in LockOpIds, ok \in BOOLEAN :
          /\ AdapterReturns(i, ok)
          /\ UNCHANGED <<smVars, sendVars, connVars, startup, loopVars, mergeVars, storeVars,
                       streamVars>>

SpecLocks == InitIdle /\ [][NextLocks]_vars

\* A Kimi adapter after its handshake: prompts, the agent's stdout, the
\* reader and the stream forwarder; everything else stays in its initial state.
NextStream ==
    \/ /\ KimiSendPrompt
       /\ UNCHANGED <<lockVars, smVars, sendVars, connVars, startup, loopVars, mergeVars,
                      storeVars>>
    \/ /\ AgentReadsPrompt
       /\ UNCHANGED <<lockVars, smVars, sendVars, connVars, startup, loopVars, mergeVars,
                      storeVars>>
    \/ /\ AgentUpdate
       /\ UNCHANGED <<lockVars, smVars, sendVars, connVars, startup, loopVars, mergeVars,
                      storeVars>>
    \/ \E stop \in StopReasons :
          /\ AgentResponds(stop)
          /\ UNCHANGED <<lockVars, smVars, sendVars, connVars, startup, loopVars,
                         mergeVars, storeVars>>
    \/ /\ AgentCloses
       /\ UNCHANGED <<lockVars, smVars, sendVars, connVars, startup, loopVars, mergeVars,
                      storeVars>>
    \/ /\ StdoutRead
       /\ UNCHANGED <<lockVars, smVars, sendVars, connVars, startup, loopVars, mergeVars,
                      storeVars>>
    \/ /\ StdoutEof
       /\ UNCHANGED <<lockVars, smVars, sendVars, connVars, startup, loopVars, mergeVars,
                      storeVars>>
    \/ /\ ForwardChunk
       /\ UNCHANGED <<lockVars, smVars, sendVars, connVars, startup, loopVars, mergeVars,
                      storeVars>>

SpecStream == InitIdle /\ [][NextStream]_vars

\* The stdout reader and the stream forwarder are tasks of the runtime: a
\* line that can be read is read, a chunk that can be forwarded is forwarded.
ReaderStep ==
    /\ StdoutRead \/ StdoutEof
    /\ UNCHANGED <<lockVars, smVars, sendVars, connVars, startup, loopVars, mergeVars,
                   storeVars>>

ForwarderStep ==
    /\ ForwardChunk
    /\ UNCHANGED <<lockVars, smVars, sendVars, connVars, startup, loopVars, mergeVars,
                   storeVars>>

SpecStreamFair == SpecStream /\ WF_vars(ReaderStep) /\ WF_vars(ForwarderStep)

\* ---- properties of the protocol connection ----------------------------------

\* C5: on one connection no two requests that were sent carry the same
\* JSON-RPC id (sent holds the id and the serial number of every request
\* handed to the stdin writer).
C5_RequestIdsUnique ==
    \A a \in sent, b \in sent : a.id = b.id => a.rq = b.rq

\* C6: once the connection is torn down (the stdout reader has seen
\* end-of-stream, or the adapter has been terminated) the pending-request
\* table is empty, whatever is issued afterwards.
C6_NoSlotAfterTeardown ==
    (readerDone \/ pc = "terminated") => pending = {}

\* The stdout reader reaches end-of-stream in this step.
EofStep == ~readerDone /\ readerDone'

\* The caller waiting in send_and_await returns in this step.
ReturnStep == await.chan # "none" /\ await' = NoAwait

\* C7: when stdout reaches end-of-stream while a caller awaits a reply, that
\* caller's channel is closed in the same step, and a caller whose channel
\* is closed returns the "process exited" error for its own request.
C7_EofFailsWaiters ==
    [][ /\ (EofStep /\ await.chan = "open") => await'.chan = "closed"
        /\ (ReturnStep /\ await.chan = "closed")
              => lastReturn' = [rq |-> await.rq, outcome |-> "Exited", got |-> 0]
      ]_vars

\* A caller was awaiting a reply when stdout reached end-of-stream, and
\* its channel was closed by that.
C7_Witness ==
    /\ readerDone
    /\ await.chan = "closed"
    /\ await.by = "stdout"

\* C8: a reply is handed only to the caller of the request it answers; in
\* particular the reply to a request that timed out is not handed to a
\* later request.
C8_NoLateReplyMisdelivered ==
    await.chan = "value" => await.got = await.rq

\* ---- KimiAdapter::send_message: routing -------------------------------------------

\* The texts of Messages without surrounding blanks.
TrimmedMessages == {"allow"}

\* Exactly one line was put on the stdin channel in this step.
OneLineQueued ==
    /\ Len(stdinQ') = Len(stdinQ) + 1
    /\ SubSeq(stdinQ', 1, Len(stdinQ)) = stdinQ

Requests(method) ==
    /\ OneLineQueued
    /\ stdinQ'[Len(stdinQ')].kind = "request"
    /\ stdinQ'[Len(stdinQ')].method = method

\* C32: in a resume handshake, after initialize has succeeded, the first
\* request is session/load exactly when the agent advertised loadSession,
\* and session/resume otherwise; session/resume is requested only then or
\* after a failed session/load, and a failed session/load always leads to
\* it; the handshake succeeds when session/load or session/resume succeeds
\* and fails only in a session/resume step; both requests carry the
\* protocol session id resume_session was given.
C32_ResumeHandshake ==
    [][hsKind = "resume" =>
          /\ (pc = "init_done" /\ pc' # "init_done" /\ writerAlive) =>
                IF supports_load THEN Requests("session/load")
                                 ELSE Requests("session/resume")
          /\ Requests("session/load") => pc = "init_done" /\ supports_load
          /\ Requests("session/resume") =>
                \/ pc = "init_done" /\ ~supports_load
                \/ pc = "load_fallback"
          /\ (pc = "load_wait" /\ pc' # "load_wait") =>
                IF lastReturn'.outcome = "Ok" THEN pc' = "ready" ELSE pc' = "load_fallback"
          /\ (pc = "load_fallback" /\ pc' # pc /\ writerAlive) => Requests("session/resume")
          /\ (pc = "resume_wait" /\ pc' # "resume_wait") =>
                pc' = IF lastReturn'.outcome = "Ok" /\ await.res # "malformed"
                      THEN "ready" ELSE "failed"
          /\ (pc \in {"new", "init_wait", "init_sleep", "init_done", "load_wait",
                     "load_fallback", "resume_wait"} /\ pc' = "ready") =>
                pc \in {"load_wait", "resume_wait"}
          /\ (pc \in {"init_done", "load_wait", "load_fallback", "resume_wait"}
              /\ pc' = "failed") =>
                \/ pc = "resume_wait"
                \/ pc = "load_fallback" /\ ~writerAlive
                \/ pc = "init_done" /\ ~supports_load /\ ~writerAlive
          /\ (Requests("session/load") \/ Requests("session/resume")) =>
                /\ stdinQ'[Len(stdinQ')].session = resume_acp_id
                /\ resume_acp_id \in StoredAcpIds]_connVars

\* C32 witness: the agent advertised loadSession, session/load failed, and the
\* session/resume sent after it with the same protocol session id succeeded.
C32_Witness ==
    /\ hsKind = "resume"
    /\ supports_load
    /\ pc = "ready"
    /\ resume_acp_id = 2
    /\ [id |-> SessionSetupId, rq |-> 2] \in sent
    /\ [id |-> ResumeFallbackId, rq |-> 3] \in sent
    /\ lastReturn = [rq |-> 3, outcome |-> "Ok", got |-> 3]

\* ---- acp_initialize: the bounded retry -------------------------------------

\* The step builds a request: send_and_await registers its slot.
BuildsRequest == reqCount' = reqCount + 1

\* The positions in which the caller waits for the reply to a request that
\* is not initialize.
OtherWaits == {"new_wait", "load_wait", "resume_wait", "op_wait", "term_wait"}

\* C33: initialize is attempted at most 15 times on a connection.  An
\* initialize request is built only by the start of the handshake and after
\* the sleep that follows a failed attempt, each time as the next attempt;
\* once an attempt has been answered the handshake never returns to the
\* retry loop; a failed attempt below the 15th is followed by the next
\* attempt and never by the failure of the handshake, the 15th by the
\* failure; and a request other than initialize that fails is not built
\* again by the code: its caller goes on to the failure, to the session/resume
\* fallback or back to the user of the adapter.
C33_InitializeBounded ==
    /\ [](attempt <= InitAttempts)
    /\ [][/\ Requests("initialize") =>
                /\ pc \in {"new", "init_sleep"}
                /\ attempt' = attempt + 1
          /\ attempt' # attempt => BuildsRequest /\ attempt' = attempt + 1
          /\ pc \notin {"new", "init_wait", "init_sleep"} =>
                /\ pc' \notin {"init_wait", "init_sleep"}
                /\ attempt' = attempt
          /\ (pc = "init_wait" /\ pc' # pc) =>
                IF lastReturn'.outcome = "Ok"
                THEN pc' \in {"init_done", "failed"} ELSE pc' = "init_sleep"
          /\ (pc = "init_sleep" /\ <<pc, attempt>>' # <<pc, attempt>>) =>
                IF attempt < InitAttempts
                THEN BuildsRequest /\ attempt' = attempt + 1 /\ pc' # "failed"
                ELSE pc' = "failed" /\ ~BuildsRequest
          /\ pc \in OtherWaits \cup {"failed"} => ~BuildsRequest
          /\ (pc \in OtherWaits /\ pc' # pc /\ lastReturn'.outcome # "Ok") =>
                pc' = CASE pc \in {"new_wait", "resume_wait"} -> "failed"
                        [] pc = "load_wait" -> "load_fallback"
                        [] pc = "op_wait" -> "ready"
                        [] pc = "term_wait" -> "term_kill"
         ]_connVars

\* Fifteen initialize attempts have failed and the handshake has failed.
C33_Witness ==
    /\ pc = "failed"
    /\ attempt = InitAttempts
    /\ reqCount = InitAttempts
    /\ lastReturn.rq = InitAttempts
    /\ lastReturn.outcome \in {"Timeout", "Exited", "SendFailed"}

\* ---- send_and_await: the slot of a returned request -----------------------------

\* A send_and_await call returns in this step (send_message, which draws a
\* message id, registers its slot itself and awaits nothing).
SendAndAwaitReturns ==
    /\ lastReturn' # lastReturn
    /\ lastReturn'.rq > 0
    /\ message_id' = message_id

\* C40: when send_and_await returns, whatever the outcome, the pending
\* table holds no slot of the returned request and no slot under its id.
C40_NoSlotAfterReturn ==
    [][SendAndAwaitReturns =>
          /\ \A x \in pending' : x.rq # lastReturn'.rq
          /\ await.chan # "none" => \A x \in pending' : x.id # await.id
      ]_connVars

\* ---- properties of the SDK connection -------------------------------------------

\* The loop takes the oldest command in this step.
LoopTakes(kind) ==
    /\ cmd_rx # <<>>
    /\ Head(cmd_rx).kind = kind
    /\ Len(cmd_rx') < Len(cmd_rx)

\* C22: while a prompt task is outstanding and a Cancel command is the
\* oldest command, the loop is at its select (it does not wait for the
\* prompt), and the step that takes the Cancel sends session/cancel to the
\* running agent and replies Ok, with the prompt still outstanding.
C22_CancelNotBlockedByPrompt ==
    [][(cmd_rx # <<>> /\ Head(cmd_rx).kind = "Cancel" /\ tasks # {}) =>
          /\ loop = "select"
          /\ LoopTakes("Cancel") =>
                /\ tasks' = tasks
                /\ childRunning =>
                      /\ toAgent' = Append(toAgent,
                                           Msg("session/cancel", Head(cmd_rx).id))
                      /\ Reply("Cancel", Head(cmd_rx).id, "Ok") \in replies']_loopVars

\* C22 witness: session/prompt was sent, then session/cancel, the cancel
\* call has returned Ok, and the prompt's response is still outstanding.
C22_Witness ==
    \E i \in DOMAIN toAgent, j \in DOMAIN toAgent :
        /\ i < j
        /\ toAgent[i].kind = "session/prompt"
        /\ toAgent[j].kind = "session/cancel"
        /\ \E t \in tasks : t.id = toAgent[i].ref /\ t.pc = "sent"
        /\ callReturn = CallReturn("cancel", toAgent[j].ref, "Ok")

\* C24: a PermissionResponse command taken while no permission request is
\* pending gets the reply Err; nothing is sent to the agent, pending_perm
\* stays None and no permission request changes state. The send_message
\* call that gets this reply sends the text as a Prompt command.
C24_PermissionResponseRejected ==
    [][/\ (LoopTakes("PermissionResponse") /\ pending_perm = None) =>
             /\ Reply("PermissionResponse", Head(cmd_rx).id, "Err") \in replies'
             /\ Reply("PermissionResponse", Head(cmd_rx).id, "Ok") \notin replies'
             /\ UNCHANGED <<toAgent, pending_perm, asks, tasks, current_message_id>>
       /\ (/\ call.op = "send_message"
           /\ call' = NoCall
           /\ LoopAlive
           /\ Reply("PermissionResponse", call.id, "Err") \in replies) =>
             /\ cmd_rx' = Append(cmd_rx, Command("Prompt", call.id))
             /\ callReturn' = CallReturn("send_message", call.id, "Ok")]_loopVars

\* C24 witness: a PermissionResponse was answered Err and the same call's
\* text went to the agent as session/prompt; no permission reply was sent.
C24_Witness ==
    \E c \in CallIds :
        /\ Reply("PermissionResponse", c, "Err") \in replies
        /\ \E i \in DOMAIN toAgent :
              toAgent[i].kind = "session/prompt" /\ toAgent[i].ref = c
        /\ \A i \in DOMAIN toAgent : toAgent[i].kind # "permission_reply"
        /\ pending_perm = None

\* ---- permission requests on the SDK connection ------------------------------------

\* The replies sent to the agent for permission request a.
PermissionReplies(a) ==
    { i \in DOMAIN toAgent : toAgent[i].kind = "permission_reply" /\ toAgent[i].ref = a }

\* C35: every permission request the agent has made is either waiting for
\* the user's answer or has been answered, with exactly one reply that
\* names it; none is discarded because a later request arrived.
C35_EveryPermissionAnswered ==
    \A a \in AskIds :
       /\ asks[a] \in {"none", "asked", "answered"}
       /\ asks[a] = "answered" => Cardinality(PermissionReplies(a)) = 1
       /\ asks[a] # "answered" => PermissionReplies(a) = {}

\* A send_message call whose PermissionResponse command the loop has answered.
Routed(c) == ReplyTo("PermissionResponse", c) # {}

\* The message of call c went to the agent as the reply to request a.
RepliedTo(a, c) ==
    \E i \in PermissionReplies(a) : toAgent[i].option = c

\* The message of call c was submitted as a prompt.
SubmittedAsPrompt(c) ==
    \/ \E i \in DOMAIN cmd_rx : cmd_rx[i] = Command("Prompt", c)
    \/ \E t \in tasks : t.id = c
    \/ ReplyTo("Prompt", c) # {}

\* C36: when the first adapter call after the interaction-prompt event of a
\* permission request is a send_message that the command loop has handled,
\* its message went to the agent as the reply to that request and was not
\* submitted as a prompt.
C36_AnswerReachesPermission ==
    \A p \in prompted :
       (p.calls + 1 \in CallIds /\ Routed(p.calls + 1)) =>
          /\ RepliedTo(p.ask, p.calls + 1)
          /\ ~SubmittedAsPrompt(p.calls + 1)

\* ---- ClaudeAdapter::terminate ----------------------------------------------------

\* This step is a whole terminate call.
TerminateCall == calls' = calls + 1 /\ callReturn'.op = "terminate"

\* C25: terminate always returns Ok and leaves the adapter inactive, without
\* child handle, command channel and protocol session id; the child whose
\* handle the adapter holds is killed, also when the Shutdown command cannot
\* be delivered; on an adapter that was never started or is already
\* terminated it changes neither the adapter nor the connection.
C25_TerminateResetsAdapter ==
    [][TerminateCall =>
          /\ callReturn'.res = "Ok"
          /\ ~claude'.is_active
          /\ ~claude'.child
          /\ ~claude'.cmd_tx
          /\ claude'.acp_session_id = None
          /\ claude.child => ~childRunning'
          /\ claude = NewClaude =>
                UNCHANGED <<claude, childRunning, call, cmd_rx, perm_rx, pending_perm,
                            loop, tasks, toAgent, asks, prompted, replies,
                            current_message_id, chunks>>]_loopVars

\* C25 witness: a started adapter was terminated twice in a row; the first
\* call queued Shutdown and killed the child, the second returned Ok.
C25_Witness ==
    /\ callReturn = CallReturn("terminate", 3, "Ok")
    /\ claude = NewClaude
    /\ ~childRunning
    /\ loop # "none"
    /\ \E i \in DOMAIN cmd_rx : cmd_rx[i] = Command("Shutdown", 2)

\* ---- properties of merge_to_branch --------------------------------------------------

\* This step is a whole merge_to_branch call with this target.
MergeCall(target) == mergeCalls' = mergeCalls + 1 /\ mergeReturn'.target = target

\* C26: when the session branch's commit is a strict descendant of the target
\* branch's commit, merge_to_branch returns Ok, the target branch names the
\* session branch's commit afterwards, and no commit has been created.
C26_FastForward ==
    [][\A target \in Targets :
          (MergeCall(target) /\ DescendantOf(refs[SessionBranch], refs[target])) =>
              /\ mergeReturn'.res = "Ok"
              /\ refs'[target] = refs[SessionBranch]
              /\ refs'[SessionBranch] = refs[SessionBranch]
              /\ commits' = commits]_mergeVars

\* C26 witness: the agent committed once on the session branch and the first
\* merge_to_branch moved the target from the root commit to that commit; the
\* repository holds the two commits only.
C26_Witness ==
    /\ mergeReturn.n = 1
    /\ mergeReturn.res = "Ok"
    /\ Len(commits) = 2
    /\ refs[SessionBranch] = 2
    /\ refs[mergeReturn.target] = 2
    /\ wt = Clean(commits[2].tree)

\* C27: a merge_to_branch whose histories have diverged and whose merge has
\* conflicts returns an error and leaves the target ref, HEAD, the index and
\* working tree and the merge state as they were, and creates no commit.
C27_ConflictNotApplied ==
    [][\A target \in Targets :
          (/\ MergeCall(target)
           /\ IsNormal(refs[target], refs[SessionBranch])
           /\ Conflicting(refs[target], refs[SessionBranch])) =>
              /\ mergeReturn'.res = "Err"
              /\ UNCHANGED <<commits, refs, head, wt, merge_head>>]_mergeVars

\* ---- properties of the sessions table -----------------------------------------------

\* The persisted fields of a session: the columns of the sessions table.
Persisted(s) ==
    [id |-> s.id, name |-> s.name, provider |-> s.provider, status |-> s.status,
     worktree_path |-> s.worktree_path, branch_name |-> s.branch_name,
     project_path |-> s.project_path, is_local |-> s.is_local,
     created_at |-> s.created_at, acp_session_id |-> s.acp_session_id,
     model |-> s.model]

\* C28: after save_session and load_sessions the loaded session of the saved
\* id equals the saved one on every persisted field, for every status and
\* provider, and its available_models and available_commands are empty.
C28_RoundTrip ==
    storePc = "loaded" =>
        /\ loaded[mem.id] # Absent
        /\ Persisted(loaded[mem.id]) = Persisted(mem)
        /\ loaded[mem.id].available_models = <<>>
        /\ loaded[mem.id].available_commands = <<>>

\* C28 witness: a paused local Kimi session with a protocol session id, a
\* model, a fractional creation time and non-empty transient lists was saved
\* beside an older row of another id, and the table was loaded again.
C28_Witness ==
    /\ storePc = "loaded"
    /\ mem.status = "Paused" /\ mem.provider = "Kimi" /\ mem.is_local
    /\ mem.created_at = [secs |-> 1, nanos |-> 500]
    /\ mem.acp_session_id # None /\ mem.model # None
    /\ mem.available_models # <<>> /\ mem.available_commands # <<>>
    /\ loaded[mem.id].status = "Paused"
    /\ \E id \in RowIds : id # mem.id /\ loaded[id] = OlderSession(id)

\* ---- properties of the locks ----------------------------------------------------

\* Call i holds the session-table lock.
HoldsTable(i) == i \in tableReaders \/ tableWriter = i

\* Call i can take its next step now.
CanStep(i) ==
    LET o == lockOps[i] IN
    \/ o.pc \in {"read", "read_adapter"} /\ tableWriter = 0
    \/ o.pc \in {"write", "write_model", "write_remove"}
          /\ tableWriter = 0 /\ tableReaders = {}
    \/ o.pc \in {"reading", "reading_adapter", "writing", "writing_model",
                 "writing_remove"}
    \/ o.pc = "lock_adapter" /\ adapterHolder[o.sid] = 0

\* Call i waits for the table lock and every holder of it can step.
WaitsForRunningTableHolder(i) ==
    /\ lockOps[i].pc \in {"read", "read_adapter", "write", "write_model", "write_remove"}
    /\ \A j \in LockOpIds : HoldsTable(j) => CanStep(j)

\* Call i waits for the agent of its own session, or for the adapter lock of
\* its own session, held by a call that waits for that agent.
WaitsForOwnAgent(i) ==
    LET o == lockOps[i] IN
    \/ o.pc = "await_agent"
    \/ /\ o.pc = "lock_adapter"
       /\ \E j \in LockOpIds :
             /\ adapterHolder[o.sid] = j
             /\ lockOps[j].sid = o.sid
             /\ lockOps[j].pc = "await_agent"

\* C31: no call holds the session-table lock while it waits for an adapter
\* lock or an agent; so every call that has not returned can step, or waits
\* for the table lock while its holders can step, or waits for the agent or
\* the adapter lock of its own session: a call blocked on one session's
\* agent holds back no get/list and no call on another session, and the
\* table lock and the adapter locks never form a cycle.
C31_TableLockNotHeldAcrossAwait ==
    \A i \in LockOpIds :
        /\ HoldsTable(i) => lockOps[i].pc \notin {"lock_adapter", "await_agent"}
        /\ lockOps[i].pc \notin {"none", "done"} =>
              \/ CanStep(i)
              \/ WaitsForRunningTableHolder(i)
              \/ lockOps[i].kind # "get" /\ WaitsForOwnAgent(i)

\* C31 witness: a set_session_model call on session 1 holds that adapter's
\* lock and waits for the agent, a send_message on session 1 waits for the
\* adapter lock, and a call on session 2 holds the table's write lock.
C31_Witness ==
    \E i, j, k \in LockOpIds :
        /\ lockOps[i].kind = "set_model" /\ lockOps[i].sid = 1
        /\ lockOps[i].pc = "await_agent"
        /\ lockOps[j].kind = "send_message" /\ lockOps[j].sid = 1
        /\ lockOps[j].pc = "lock_adapter"
        /\ lockOps[k].sid = 2 /\ tableWriter = k

\* ---- properties of the stream -----------------------------------------------------

\* Every chunk sent on the stream so far, in the order in which the outward
\* stream delivers it.
Produced == emitted \o stream_rx

\* The positions in Produced of the chunks made from stdout line n.
ChunksFrom(n) == { i \in DOMAIN Produced : Produced[i].line = n }

EndTurn(l) == l.kind = "response" /\ l.stop = "end_turn"

\* C34: each prompt response with stop reason end_turn that the reader has
\* read has exactly one chunk on the stream, a completion chunk, placed
\* behind the content chunk of every update line read before that response;
\* the chunk is sent with the message id current when the response is read;
\* and the forwarder emits the chunks in the order sent, none dropped and
\* none overtaken.
C34_EndTurnCompletes ==
    /\ [](\A k \in DOMAIN read_lines :
             EndTurn(read_lines[k]) =>
                /\ Cardinality(ChunksFrom(read_lines[k].n)) = 1
                /\ \A i \in ChunksFrom(read_lines[k].n) :
                      /\ Produced[i].is_complete
                      /\ \A j \in 1 .. (k - 1) :
                            read_lines[j].kind = "update" =>
                               \E h \in ChunksFrom(read_lines[j].n) :
                                  h < i /\ ~Produced[h].is_complete)
    /\ [][/\ (read_lines' # read_lines /\ EndTurn(read_lines'[Len(read_lines')])) =>
                /\ Len(stream_rx') = Len(stream_rx) + 1
                /\ stream_rx'[Len(stream_rx')].message_id = kimi_message_id
                /\ stream_rx'[Len(stream_rx')].is_complete
          /\ Len(Produced') >= Len(Produced)
          /\ SubSeq(Produced', 1, Len(Produced)) = Produced
          /\ Len(emitted') >= Len(emitted)
          /\ SubSeq(emitted', 1, Len(emitted)) = emitted
         ]_streamVars

\* A turn with a content chunk ended with end_turn and both chunks were
\* emitted, the completion chunk last.
C34_Witness ==
    \E i \in DOMAIN emitted, k \in DOMAIN read_lines :
       /\ EndTurn(read_lines[k])
       /\ emitted[i].line = read_lines[k].n
       /\ emitted[i].is_complete
       /\ \E j \in 1 .. (i - 1) :
             /\ ~emitted[j].is_complete
             /\ emitted[j].prompt = emitted[i].prompt
             /\ emitted[j].message_id = emitted[i].message_id

\* C38: every chunk emitted for a prompt, content or completion, carries
\* the message id that was drawn when that prompt was submitted.
C38_ChunksCarryPromptId ==
    \A i \in DOMAIN emitted :
       emitted[i].prompt \in PromptIds =>
          emitted[i].message_id = assigned[emitted[i].prompt]

\* The agent has written its response to prompt p.
Answered(p) ==
    \/ \E k \in DOMAIN stdout_lines :
          stdout_lines[k].kind = "response" /\ stdout_lines[k].prompt = p
    \/ \E k \in DOMAIN read_lines :
          read_lines[k].kind = "response" /\ read_lines[k].prompt = p

\* A completion chunk for the turn of prompt p has been emitted: one made
\* from its response, or the one made at the end of the stream.
Completed(p) ==
    \E i \in DOMAIN emitted :
       emitted[i].is_complete /\ emitted[i].prompt \in {p, EndOfStream.prompt}

\* C39: once the agent has answered a submitted prompt, or its stdout is
\* closed, a completion chunk for that turn is eventually emitted.
C39_TurnEventuallyCompletes ==
    \A p \in PromptIds :
       (p <= Len(assigned) /\ (Answered(p) \/ ~agent_up)) ~> Completed(p)

\* ---- startup recovery ---------------------------------------------------------

NextRecovery ==
    \/ Construct /\ UNCHANGED <<sendVars, connVars, loopVars, mergeVars, storeVars, lockVars,
                              streamVars>>

SpecRecovery == InitStored /\ [][NextRecovery]_vars

====
